---- MODULE Spec2Model ----
(***************************************************************************)
(* Model of the request builder of antigravity2api-nodejs                  *)
(* (src/src/utils/utils.js): the message-history transcoder, the system    *)
(* instruction merge, the generation config builder and the tool schema    *)
(* normalizer.                                                             *)
(*                                                                         *)
(* Conventions.  A JavaScript string whose characters the code inspects    *)
(* (trim, trimEnd, join) is a sequence of one-character strings; a string  *)
(* the code only compares or copies (ids, names, roles) is a TLA+ string.  *)
(* JavaScript objects are records of one fixed shape per kind, with an     *)
(* explicit tag where JavaScript would test typeof / Array.isArray.        *)
(***************************************************************************)
EXTENDS Integers, Sequences, FiniteSets, TLC

VARIABLES
    \* generateRequestBody: the message history and the system instruction
    openaiMessages,           \* the client message list
    baseSystem,               \* config.systemInstruction
    pc,                       \* position inside generateRequestBody
    mergedSystemInstruction,  \* result of extractSystemInstruction
    startIndex,               \* number of leading system messages filtered out
    idx,                      \* 1-based position of the for-of loop in openaiMessages
    antigravityMessages,      \* the upstream turn list being built
    requestBody,              \* the envelope fields derived from the messages
    openaiTools,              \* the client tool declarations, or undefined
    \* generateRequestBody: the model policy and the generation config
    modelName,                \* the client model identifier
    parameters,               \* the client generation parameters
    configDefaults,           \* config.defaults
    genPc,                    \* position inside the policy/config steps
    enableThinking,           \* result of isEnableThinking
    actualModelName,          \* result of modelMapping
    generationConfig,         \* result of generateGenerationConfig
    \* cleanParameters
    schema,                   \* tool.function.parameters
    cleanPc,                  \* how many times the normalizer has run
    cleaned,                  \* cleanParameters(schema)
    cleanedTwice,             \* cleanParameters(cleanParameters(schema))
    \* extractImagesFromContent
    extractInput,             \* the content argument
    extractPc,                \* position of the call
    extractOutput,            \* what the call returned, or that it threw
    \* customLookup
    hostname,                 \* the name to resolve
    dnsPc,                    \* position inside customLookup and its callbacks
    lookup4,                  \* the dns.lookup call with family 4
    lookup6,                  \* the dns.lookup call with family 6
    lookupOrder,              \* the families of the dns.lookup calls, in call order
    callbacks,                \* the invocations of the caller's callback, in order
    \* the signature cache and its policy flags
    jsonOther,                \* jsonConfig.other, the flags as configured
    sigConfig,                \* the flags as buildConfig derives them
    sigCache,                 \* the cached signatures
    lastCall,                 \* the last put or get call, with what get reported
    \* parseEnvFile
    envLines,                 \* content.split('\n')
    envI,                     \* 1-based position of the loop in the lines
    currentKey,               \* key of the multi-line value being collected
    currentValue,             \* text collected so far
    inMultiline,              \* inside a multi-line value
    quoteChar,                \* the quote that opened it
    envData,                  \* the assignments made
    envPc,                    \* position of the call
    \* IpBlockManager
    ipNow,                    \* Date.now()
    ipTicks,                  \* how many times the clock has advanced
    blockedIps,               \* this.data.blocked_ips
    initialized,              \* this.initialized
    fileData,                 \* blocked_ips of the block-list file on disk
    ipCalls,                  \* the recordViolation calls awaiting init
    loadCount,                \* how many times load has replaced this.data
    saveQueue,                \* writes chained on savePromise, not started yet
    writing,                  \* the writes in flight
    writeLog,                 \* the writes started, in start order
    savesCalled,              \* how many times save has been called
    savePromise,              \* how the last settled link of this.savePromise ended
    lastIpCall                \* the last call of check or recordViolation to return

msgVars == <<openaiMessages, baseSystem, pc, mergedSystemInstruction, startIndex,
             idx, antigravityMessages, requestBody, openaiTools>>
genVars == <<modelName, parameters, configDefaults, genPc, enableThinking,
             actualModelName, generationConfig>>
cleanVars == <<schema, cleanPc, cleaned, cleanedTwice>>
extractVars == <<extractInput, extractPc, extractOutput>>
dnsVars == <<hostname, dnsPc, lookup4, lookup6, lookupOrder, callbacks>>
cacheVars == <<jsonOther, sigConfig, sigCache, lastCall>>
envVars == <<envLines, envI, currentKey, currentValue, inMultiline, quoteChar, envData,
             envPc>>
ipVars == <<ipNow, ipTicks, blockedIps, initialized, fileData, ipCalls, loadCount,
            saveQueue, writing, writeLog, savesCalled, savePromise, lastIpCall>>

vars == <<msgVars, genVars, cleanVars, extractVars, dnsVars, cacheVars, envVars, ipVars>>

----------------------------------------------------------------------------
(* Strings as character sequences *)

IsSpace(c) == c \in {" ", "\n", "\t"}

RECURSIVE TrimEnd(_)
TrimEnd(s) ==
    IF s = <<>> THEN <<>>
    ELSE IF IsSpace(s[Len(s)]) THEN TrimEnd(SubSeq(s, 1, Len(s) - 1))
    ELSE s

RECURSIVE TrimStart(_)
TrimStart(s) ==
    IF s = <<>> THEN <<>>
    ELSE IF IsSpace(s[1]) THEN TrimStart(Tail(s))
    ELSE s

Trim(s) == TrimEnd(TrimStart(s))

\* Array.prototype.join over character sequences
RECURSIVE Join(_, _)
Join(list, sep) ==
    IF list = <<>> THEN <<>>
    ELSE IF Len(list) = 1 THEN list[1]
    ELSE list[1] \o sep \o Join(Tail(list), sep)

BlankLine == <<"\n", "\n">>

----------------------------------------------------------------------------
(* Client messages (OpenAI format) *)

StringContent(s) == [kind |-> "string", text |-> s, items |-> <<>>]
ArrayContent(items) == [kind |-> "array", text |-> <<>>, items |-> items]
NullContent == [kind |-> "null", text |-> <<>>, items |-> <<>>]

\* An element of a content list.  isNull: the element is null; hasText: it
\* has a text property; urlKind: the type of image_url.url ("undefined" also
\* when image_url itself is missing).
Item(isNull, type, hasText, text, urlKind, url) ==
    [isNull |-> isNull, type |-> type, hasText |-> hasText, text |-> text,
     urlKind |-> urlKind, url |-> url]
TextItem(s) == Item(FALSE, "text", TRUE, s, "undefined", <<>>)
ImageItem(u) == Item(FALSE, "image_url", FALSE, <<>>, "string", u)
NullItem == Item(TRUE, "", FALSE, <<>>, "undefined", <<>>)

ToolCall(id, name, arguments) == [id |-> id, name |-> name, arguments |-> arguments]

Message(role, content, toolCalls, toolCallId) ==
    [role |-> role, content |-> content, tool_calls |-> toolCalls, tool_call_id |-> toolCallId]

(* Upstream parts and turns *)

TextPart(s) ==
    [kind |-> "text", text |-> s, mimeType |-> <<>>, data |-> <<>>,
     id |-> "", name |-> "", args |-> "", output |-> NullContent]
InlineData(mime, d) ==
    [kind |-> "inlineData", text |-> <<>>, mimeType |-> mime, data |-> d,
     id |-> "", name |-> "", args |-> "", output |-> NullContent]
FunctionCall(id, name, arguments) ==
    [kind |-> "functionCall", text |-> <<>>, mimeType |-> <<>>, data |-> <<>>,
     id |-> id, name |-> name, args |-> arguments, output |-> NullContent]
FunctionResponse(id, name, out) ==
    [kind |-> "functionResponse", text |-> <<>>, mimeType |-> <<>>, data |-> <<>>,
     id |-> id, name |-> name, args |-> "", output |-> out]

Turn(role, parts) == [role |-> role, parts |-> parts]

----------------------------------------------------------------------------
(* extractImagesFromContent: a URL is a sequence of characters, with the   *)
(* two literals of the pattern, "data:image/" and ";base64,", as single    *)
(* tokens.                                                                 *)

IsWordChar(c) == c \in {"p", "n", "g", "j", "_", "0"}

\* the length of the longest prefix of s made of word characters (\w+ is greedy)
RECURSIVE WordPrefixLen(_)
WordPrefixLen(s) ==
    IF s = <<>> \/ ~IsWordChar(s[1]) THEN 0 ELSE 1 + WordPrefixLen(Tail(s))

\* imageUrl.match(/^data:image\/(\w+);base64,(.+)$/): the record of the two
\* groups, ok = FALSE when there is no match
MatchDataUrl(url) ==
    LET rest == IF url = <<>> THEN <<>> ELSE Tail(url)
        w == WordPrefixLen(rest)
        payload == SubSeq(rest, w + 2, Len(rest))
        ok == /\ url # <<>>
              /\ url[1] = "data:image/"
              /\ w >= 1
              /\ Len(rest) >= w + 2
              /\ rest[w + 1] = ";base64,"
              /\ \A k \in 1..Len(payload) : payload[k] # "\n"
    IN [ok |-> ok,
        format |-> IF ok THEN SubSeq(rest, 1, w) ELSE <<>>,
        data |-> IF ok THEN payload ELSE <<>>]

\* what the call gives when it throws a TypeError
Thrown == [threw |-> TRUE, text |-> <<>>, images |-> <<>>]
Extracted(text, images) == [threw |-> FALSE, text |-> text, images |-> images]

\* item.image_url?.url || '' followed by .match: a truthy url that is no
\* string has no match method
UrlOrEmpty(item) == IF item.urlKind = "string" THEN item.url ELSE <<>>
MatchThrows(item) == item.urlKind \notin {"string", "undefined"}

\* the for-of loop over the content list: reading item.type of a null item
\* throws; a text item without text appends the text of undefined
RECURSIVE ExtractItems(_, _)
ExtractItems(items, result) ==
    IF items = <<>> THEN result
    ELSE LET item == items[1]
             m == MatchDataUrl(UrlOrEmpty(item))
         IN IF item.isNull THEN Thrown
            ELSE IF item.type = "text"
            THEN ExtractItems(Tail(items),
                    [result EXCEPT !.text =
                        @ \o (IF item.hasText THEN item.text ELSE <<"undefined">>)])
            ELSE IF item.type = "image_url"
            THEN IF MatchThrows(item) THEN Thrown
                 ELSE IF m.ok
                 THEN ExtractItems(Tail(items),
                         [result EXCEPT !.images =
                             Append(@, InlineData(<<"image/">> \o m.format, m.data))])
                 ELSE ExtractItems(Tail(items), result)
            ELSE ExtractItems(Tail(items), result)

\* the message alphabets of the transcoder carry well-formed items only, so
\* the calls made from there never throw
extractImagesFromContent(content) ==
    IF content.kind = "string" THEN Extracted(content.text, <<>>)
    ELSE IF content.kind = "array"
    THEN ExtractItems(content.items, Extracted(<<>>, <<>>))
    ELSE Extracted(<<>>, <<>>)

----------------------------------------------------------------------------
(* The message handlers: each takes the turn list built so far and returns *)
(* the turn list after the handler has run.                                *)

Last(seq) == seq[Len(seq)]

\* seeded fault: the text part is left out when the text is empty
handleUserMessage_SkipEmptyText(extracted, turns) ==
    Append(turns, Turn("user",
        (IF extracted.text # <<>> THEN <<TextPart(extracted.text)>> ELSE <<>>)
        \o extracted.images))

handleUserMessage(extracted, turns) ==
    Append(turns, Turn("user", <<TextPart(extracted.text)>> \o extracted.images))

\* message.tool_calls && message.tool_calls.length > 0 (an absent list is <<>>)
HasToolCalls(message) == Len(message.tool_calls) > 0

\* message.content && message.content.trim() !== ''
HasContent(message) ==
    /\ message.content.kind = "string"
    /\ message.content.text # <<>>
    /\ Trim(message.content.text) # <<>>

AntigravityTools(message) ==
    [k \in 1..Len(message.tool_calls) |->
        FunctionCall(message.tool_calls[k].id, message.tool_calls[k].name,
                     message.tool_calls[k].arguments)]

\* seeded fault: the merge does not look at the text of the message
handleAssistantMessage_MergeWithText(message, turns) ==
    IF turns # <<>> /\ Last(turns).role = "model" /\ HasToolCalls(message)
    THEN [turns EXCEPT ![Len(turns)].parts = @ \o AntigravityTools(message)]
    ELSE LET textParts == IF HasContent(message)
                          THEN <<TextPart(TrimEnd(message.content.text))>>
                          ELSE <<>>
         IN Append(turns, Turn("model", textParts \o AntigravityTools(message)))

handleAssistantMessage(message, turns) ==
    IF turns # <<>> /\ Last(turns).role = "model"
       /\ HasToolCalls(message) /\ ~HasContent(message)
    THEN [turns EXCEPT ![Len(turns)].parts = @ \o AntigravityTools(message)]
    ELSE LET textParts == IF HasContent(message)
                          THEN <<TextPart(TrimEnd(message.content.text))>>
                          ELSE <<>>
         IN Append(turns, Turn("model", textParts \o AntigravityTools(message)))

\* the inner loop of handleToolCall: the name of the first functionCall part
\* with the id, "" when the turn has none
RECURSIVE FirstMatchName(_, _)
FirstMatchName(parts, id) ==
    IF parts = <<>> THEN ""
    ELSE IF parts[1].kind = "functionCall" /\ parts[1].id = id THEN parts[1].name
    ELSE FirstMatchName(Tail(parts), id)

\* seeded fault: the scan looks at the immediately preceding turn only
ScanFunctionName_LastOnly(turns, i, id) ==
    IF i = 0 THEN ""
    ELSE IF turns[i].role = "model" THEN FirstMatchName(turns[i].parts, id)
    ELSE ""

\* the outer loop of handleToolCall, from turn i down to turn 1; it stops
\* only when the name found is truthy (non-empty)
RECURSIVE ScanFunctionName(_, _, _)
ScanFunctionName(turns, i, id) ==
    IF i = 0 THEN ""
    ELSE IF turns[i].role = "model" /\ FirstMatchName(turns[i].parts, id) # ""
    THEN FirstMatchName(turns[i].parts, id)
    ELSE ScanFunctionName(turns, i - 1, id)

HasFunctionResponse(turn) ==
    \E k \in 1..Len(turn.parts) : turn.parts[k].kind = "functionResponse"

\* seeded fault: a tool message whose id resolves to no name is dropped
handleToolCall_DropUnresolved(message, turns) ==
    LET functionName == ScanFunctionName(turns, Len(turns), message.tool_call_id)
        functionResponse ==
            FunctionResponse(message.tool_call_id, functionName, message.content)
    IN IF functionName = "" THEN turns
       ELSE IF turns # <<>> /\ Last(turns).role = "user" /\ HasFunctionResponse(Last(turns))
       THEN [turns EXCEPT ![Len(turns)].parts = Append(@, functionResponse)]
       ELSE Append(turns, Turn("user", <<functionResponse>>))

\* seeded fault: the response joins any preceding user turn, plain ones too
handleToolCall_MergeAnyUser(message, turns) ==
    LET functionName == ScanFunctionName(turns, Len(turns), message.tool_call_id)
        functionResponse ==
            FunctionResponse(message.tool_call_id, functionName, message.content)
    IN IF turns # <<>> /\ Last(turns).role = "user"
       THEN [turns EXCEPT ![Len(turns)].parts = Append(@, functionResponse)]
       ELSE Append(turns, Turn("user", <<functionResponse>>))

\* seeded fault: every tool message starts a turn of its own
handleToolCall_NoMerge(message, turns) ==
    Append(turns, Turn("user",
        <<FunctionResponse(message.tool_call_id,
                           ScanFunctionName(turns, Len(turns), message.tool_call_id),
                           message.content)>>))

handleToolCall(message, turns) ==
    LET functionName == ScanFunctionName(turns, Len(turns), message.tool_call_id)
        functionResponse ==
            FunctionResponse(message.tool_call_id, functionName, message.content)
    IN IF turns # <<>> /\ Last(turns).role = "user" /\ HasFunctionResponse(Last(turns))
       THEN [turns EXCEPT ![Len(turns)].parts = Append(@, functionResponse)]
       ELSE Append(turns, Turn("user", <<functionResponse>>))

\* the branches of the for-of loop of openaiMessageToAntigravity
ConvertUser(message, turns) ==
    handleUserMessage(extractImagesFromContent(message.content), turns)

\* seeded fault: a system message in the body keeps its text only
ConvertSystem_TextOnly(message, turns) ==
    handleUserMessage([text |-> extractImagesFromContent(message.content).text,
                       images |-> <<>>], turns)

ConvertSystem(message, turns) ==
    handleUserMessage(extractImagesFromContent(message.content), turns)

\* one iteration of the loop
ConvertMessage(message, turns) ==
    IF message.role = "user" THEN ConvertUser(message, turns)
    ELSE IF message.role = "system" THEN ConvertSystem(message, turns)
    ELSE IF message.role = "assistant" THEN handleAssistantMessage(message, turns)
    ELSE IF message.role = "tool" THEN handleToolCall(message, turns)
    ELSE turns

RECURSIVE ConvertFrom(_, _)
ConvertFrom(messages, turns) ==
    IF messages = <<>> THEN turns
    ELSE ConvertFrom(Tail(messages), ConvertMessage(messages[1], turns))

openaiMessageToAntigravity(messages) == ConvertFrom(messages, <<>>)

----------------------------------------------------------------------------
(* extractSystemInstruction and the leading-system filter of               *)
(* generateRequestBody                                                     *)

RECURSIVE JoinTextItems(_)
JoinTextItems(items) ==
    IF items = <<>> THEN <<>>
    ELSE (IF items[1].type = "text" THEN items[1].text ELSE <<>>)
         \o JoinTextItems(Tail(items))

SystemContentText(content) ==
    IF content.kind = "string" THEN content.text
    ELSE IF content.kind = "array" THEN JoinTextItems(content.items)
    ELSE <<>>

\* seeded fault: the collection does not stop at the first non-system message
RECURSIVE CollectSystemTexts_All(_)
CollectSystemTexts_All(messages) ==
    IF messages = <<>> THEN <<>>
    ELSE LET content == SystemContentText(messages[1].content)
         IN (IF messages[1].role = "system" /\ Trim(content) # <<>>
             THEN <<Trim(content)>> ELSE <<>>)
            \o CollectSystemTexts_All(Tail(messages))

\* the collection loop: stops at the first message that is not a system message
RECURSIVE CollectSystemTexts(_)
CollectSystemTexts(messages) ==
    IF messages = <<>> \/ messages[1].role # "system" THEN <<>>
    ELSE LET content == SystemContentText(messages[1].content)
         IN (IF Trim(content) # <<>> THEN <<Trim(content)>> ELSE <<>>)
            \o CollectSystemTexts(Tail(messages))

extractSystemInstruction(messages, base) ==
    LET systemTexts == CollectSystemTexts(messages)
        parts == (IF Trim(base) # <<>> THEN <<Trim(base)>> ELSE <<>>)
                 \o (IF Len(systemTexts) > 0 THEN <<Join(systemTexts, BlankLine)>> ELSE <<>>)
    IN Join(parts, BlankLine)

\* seeded fault: only the first message is filtered
LeadingSystemCount_FirstOnly(messages) ==
    IF messages = <<>> \/ messages[1].role # "system" THEN 0 ELSE 1

\* the startIndex loop of generateRequestBody
RECURSIVE LeadingSystemCount(_)
LeadingSystemCount(messages) ==
    IF messages = <<>> \/ messages[1].role # "system" THEN 0
    ELSE 1 + LeadingSystemCount(Tail(messages))

----------------------------------------------------------------------------
(* Model policy and generation config.  A model identifier is a sequence   *)
(* of tokens, cut where the code cuts it: the suffix "-thinking" and the   *)
(* prefix "gemini-3-pro-" are tokens of their own.  An optional value is a *)
(* record tagged undefined, null, number, string or function.              *)

Undefined == [kind |-> "undefined", value |-> 0]
Null == [kind |-> "null", value |-> 0]
Num(n) == [kind |-> "number", value |-> n]
\* a property inherited from Object.prototype, such as toString
InheritedFunction == [kind |-> "function", value |-> 0]

NoEffort == [kind |-> "undefined", value |-> ""]
Effort(e) == [kind |-> "string", value |-> e]

\* a ?? b
Coalesce(a, b) == IF a.kind \in {"undefined", "null"} THEN b ELSE a

ObjectPrototypeKeys == {"toString", "constructor", "valueOf", "hasOwnProperty"}

\* REASONING_EFFORT_MAP[effort]
REASONING_EFFORT_MAP(effort) ==
    IF effort = "low" THEN Num(1024)
    ELSE IF effort = "medium" THEN Num(16000)
    ELSE IF effort = "high" THEN Num(32000)
    ELSE IF effort \in ObjectPrototypeKeys THEN InheritedFunction
    ELSE Undefined

HardDefaultThinkingBudget == 16000

ClaudeTokens == {"claude-sonnet-4-5", "claude-opus-4-5"}

\* actualModelName.includes("claude")
IncludesClaude(name) == \E k \in 1..Len(name) : name[k] \in ClaudeTokens

\* seeded fault: topP is deleted whenever thinking is enabled, whatever the model
generateGenerationConfig_NoTopPWhenThinking(params, thinking, actualName) ==
    LET defaultThinkingBudget ==
            Coalesce(configDefaults.thinking_budget, Num(HardDefaultThinkingBudget))
        thinkingBudget ==
            IF thinking
            THEN IF params.thinking_budget.kind # "undefined" THEN params.thinking_budget
                 ELSE IF params.reasoning_effort.kind # "undefined"
                 THEN Coalesce(REASONING_EFFORT_MAP(params.reasoning_effort.value),
                               defaultThinkingBudget)
                 ELSE defaultThinkingBudget
            ELSE Num(0)
    IN [hasTopP |-> ~thinking,
        topP |-> Coalesce(params.top_p, configDefaults.top_p),
        topK |-> Coalesce(params.top_k, configDefaults.top_k),
        temperature |-> Coalesce(params.temperature, configDefaults.temperature),
        candidateCount |-> 1,
        maxOutputTokens |-> Coalesce(params.max_tokens, configDefaults.max_tokens),
        thinkingConfig |-> [includeThoughts |-> thinking,
                            thinkingBudget |-> thinkingBudget]]

\* seeded fault: the client's budget is used whether or not thinking is enabled
generateGenerationConfig_ClientBudget(params, thinking, actualName) ==
    LET defaultThinkingBudget ==
            Coalesce(configDefaults.thinking_budget, Num(HardDefaultThinkingBudget))
        thinkingBudget ==
            IF params.thinking_budget.kind # "undefined" THEN params.thinking_budget
            ELSE IF thinking
            THEN IF params.reasoning_effort.kind # "undefined"
                 THEN Coalesce(REASONING_EFFORT_MAP(params.reasoning_effort.value),
                               defaultThinkingBudget)
                 ELSE defaultThinkingBudget
            ELSE Num(0)
    IN [hasTopP |-> ~(thinking /\ IncludesClaude(actualName)),
        topP |-> Coalesce(params.top_p, configDefaults.top_p),
        topK |-> Coalesce(params.top_k, configDefaults.top_k),
        temperature |-> Coalesce(params.temperature, configDefaults.temperature),
        candidateCount |-> 1,
        maxOutputTokens |-> Coalesce(params.max_tokens, configDefaults.max_tokens),
        thinkingConfig |-> [includeThoughts |-> thinking,
                            thinkingBudget |-> thinkingBudget]]

\* reasoning_effort null is not undefined: the map is then read at "null"
generateGenerationConfig(params, thinking, actualName) ==
    LET defaultThinkingBudget ==
            Coalesce(configDefaults.thinking_budget, Num(HardDefaultThinkingBudget))
        thinkingBudget ==
            IF thinking
            THEN IF params.thinking_budget.kind # "undefined" THEN params.thinking_budget
                 ELSE IF params.reasoning_effort.kind # "undefined"
                 THEN Coalesce(REASONING_EFFORT_MAP(params.reasoning_effort.value),
                               defaultThinkingBudget)
                 ELSE defaultThinkingBudget
            ELSE Num(0)
    IN [hasTopP |-> ~(thinking /\ IncludesClaude(actualName)),
        topP |-> Coalesce(params.top_p, configDefaults.top_p),
        topK |-> Coalesce(params.top_k, configDefaults.top_k),
        temperature |-> Coalesce(params.temperature, configDefaults.temperature),
        candidateCount |-> 1,
        maxOutputTokens |-> Coalesce(params.max_tokens, configDefaults.max_tokens),
        thinkingConfig |-> [includeThoughts |-> thinking,
                            thinkingBudget |-> thinkingBudget]]

modelMapping(name) ==
    IF name = <<"claude-sonnet-4-5", "-thinking">> THEN <<"claude-sonnet-4-5">>
    ELSE IF name = <<"claude-opus-4-5">> THEN <<"claude-opus-4-5", "-thinking">>
    ELSE IF name = <<"gemini-2.5-flash", "-thinking">> THEN <<"gemini-2.5-flash">>
    ELSE name

isEnableThinking(name) ==
    \/ (name # <<>> /\ name[Len(name)] = "-thinking")
    \/ name = <<"gemini-2.5-pro">>
    \/ (name # <<>> /\ name[1] = "gemini-3-pro-")
    \/ name = <<"rev19-uic3-1p">>
    \/ name = <<"gpt-oss-120b-medium">>

NoGenerationConfig ==
    [hasTopP |-> FALSE, topP |-> Undefined, topK |-> Undefined, temperature |-> Undefined,
     candidateCount |-> 0, maxOutputTokens |-> Undefined,
     thinkingConfig |-> [includeThoughts |-> FALSE, thinkingBudget |-> Undefined]]

NoParameters ==
    [thinking_budget |-> Undefined, reasoning_effort |-> NoEffort, top_p |-> Undefined,
     top_k |-> Undefined, temperature |-> Undefined, max_tokens |-> Undefined]

NoDefaults ==
    [thinking_budget |-> Undefined, top_p |-> Undefined, top_k |-> Undefined,
     temperature |-> Undefined, max_tokens |-> Undefined]

GenIdle ==
    /\ modelName = <<>>
    /\ parameters = NoParameters
    /\ configDefaults = NoDefaults
    /\ genPc = "idle"
    /\ enableThinking = FALSE
    /\ actualModelName = <<>>
    /\ generationConfig = NoGenerationConfig

----------------------------------------------------------------------------
(* cleanParameters.  A JSON value is a record: t is its type, v the text   *)
(* of a leaf, kv the entries of an object or an array in Object.entries    *)
(* order (the keys of an array are its indices).                           *)

JNull == [t |-> "null", v |-> "", kv |-> <<>>]
JStr(x) == [t |-> "str", v |-> x, kv |-> <<>>]
JNum(x) == [t |-> "num", v |-> x, kv |-> <<>>]
JBool(x) == [t |-> "bool", v |-> x, kv |-> <<>>]
Entry(key, val) == [k |-> key, val |-> val]
JObj(entries) == [t |-> "obj", v |-> "", kv |-> entries]
IndexKey(i) == <<"0", "1", "2", "3">>[i]
JArr(elems) ==
    [t |-> "arr", v |-> "", kv |-> [i \in 1..Len(elems) |-> Entry(IndexKey(i), elems[i])]]

EXCLUDED_KEYS ==
    {"$schema", "additionalProperties", "minLength", "maxLength", "minItems", "maxItems",
     "uniqueItems"}

\* value && typeof value === 'object'
IsTruthyObject(value) == value.t \in {"obj", "arr"}

\* cleaned[key] = ... with this key runs the __proto__ setter inherited from
\* Object.prototype: the value becomes the prototype of cleaned (or is
\* ignored when it is no object) and cleaned gets no own property
PrototypeSetterKey == "__proto__"

RECURSIVE cleanParameters(_)
RECURSIVE CleanEntries(_)

\* seeded fault: removing an excluded key makes the loop step over the entry after it
CleanEntries_SkipAfterDelete(entries) ==
    IF entries = <<>> THEN <<>>
    ELSE IF entries[1].k \in EXCLUDED_KEYS
    THEN IF Len(entries) >= 2
         THEN <<entries[2]>> \o CleanEntries(Tail(Tail(entries)))
         ELSE <<>>
    ELSE IF entries[1].k = PrototypeSetterKey THEN CleanEntries(Tail(entries))
    ELSE <<Entry(entries[1].k,
                 IF IsTruthyObject(entries[1].val) THEN cleanParameters(entries[1].val)
                 ELSE entries[1].val)>>
         \o CleanEntries(Tail(entries))

\* the for-of loop over Object.entries(obj); the result lists the own
\* properties of cleaned
CleanEntries(entries) ==
    IF entries = <<>> THEN <<>>
    ELSE IF entries[1].k \in EXCLUDED_KEYS THEN CleanEntries(Tail(entries))
    ELSE IF entries[1].k = PrototypeSetterKey THEN CleanEntries(Tail(entries))
    ELSE <<Entry(entries[1].k,
                 IF IsTruthyObject(entries[1].val) THEN cleanParameters(entries[1].val)
                 ELSE entries[1].val)>>
         \o CleanEntries(Tail(entries))

cleanParameters(obj) ==
    IF ~IsTruthyObject(obj) THEN obj
    ELSE [t |-> obj.t, v |-> "", kv |-> CleanEntries(obj.kv)]

(* convertOpenAIToolsToAntigravity.  The tools argument is undefined or a    *)
(* list of client tools; every declaration of the result stands for one    *)
(* {functionDeclarations: [{name, description, parameters}]} element.      *)

NoTools == [kind |-> "undefined", list |-> <<>>]
ToolList(tools) == [kind |-> "array", list |-> tools]
Tool(name, description, params) ==
    [name |-> name, description |-> description, parameters |-> params]

convertOpenAIToolsToAntigravity(tools) ==
    IF tools.kind = "undefined" \/ Len(tools.list) = 0 THEN <<>>
    ELSE [i \in 1..Len(tools.list) |->
            Tool(tools.list[i].name, tools.list[i].description,
                 cleanParameters(tools.list[i].parameters))]

CleanIdle ==
    /\ schema = JNull
    /\ cleanPc = "idle"
    /\ cleaned = JNull
    /\ cleanedTwice = JNull

----------------------------------------------------------------------------
(* The other operations at rest *)

NoExtract == [threw |-> FALSE, text |-> <<>>, images |-> <<>>]

ExtractIdle ==
    /\ extractInput = NullContent
    /\ extractPc = "idle"
    /\ extractOutput = NoExtract

NoLookup == [state |-> "none", err |-> "", address |-> ""]

DnsIdle ==
    /\ hostname = ""
    /\ dnsPc = "idle"
    /\ lookup4 = NoLookup
    /\ lookup6 = NoLookup
    /\ lookupOrder = <<>>
    /\ callbacks = <<>>

NoFlags ==
    [cacheAllSignatures |-> "undefined", cacheToolSignatures |-> "undefined",
     cacheImageSignatures |-> "undefined", cacheThinking |-> "undefined"]
NoSigConfig ==
    [cacheAllSignatures |-> FALSE, cacheToolSignatures |-> FALSE,
     cacheImageSignatures |-> FALSE, cacheThinking |-> FALSE]
NoCall == [op |-> "none", category |-> "", key |-> "", token |-> ""]

CacheIdle ==
    /\ jsonOther = NoFlags
    /\ sigConfig = NoSigConfig
    /\ sigCache = {}
    /\ lastCall = NoCall

EnvIdle ==
    /\ envLines = <<>>
    /\ envI = 1
    /\ currentKey = <<>>
    /\ currentValue = <<>>
    /\ inMultiline = FALSE
    /\ quoteChar = ""
    /\ envData = {}
    /\ envPc = "idle"

IpIdle ==
    /\ ipNow = 0
    /\ ipTicks = 0
    /\ blockedIps = <<>>
    /\ initialized = FALSE
    /\ fileData = <<>>
    /\ ipCalls = <<>>
    /\ loadCount = 0
    /\ saveQueue = <<>>
    /\ writing = {}
    /\ writeLog = <<>>
    /\ savesCalled = 0
    /\ savePromise = "fulfilled"
    /\ lastIpCall = <<>>

----------------------------------------------------------------------------
(* Inputs.  Message lists are all the lists of at most MaxMsgs messages    *)
(* over a message alphabet.                                                *)

MaxMsgs == 4

PngUrl == <<"data:image/", "p", "n", "g", ";base64,", "d">>

Call1 == ToolCall("id1", "f", "x")
Call2 == ToolCall("id2", "g", "y")

UserText == Message("user", StringContent(<<"a">>), <<>>, "")
UserImage == Message("user", ArrayContent(<<ImageItem(PngUrl)>>), <<>>, "")
SystemBlank == Message("system", StringContent(<<" ">>), <<>>, "")
SystemText == Message("system", StringContent(<<"s">>), <<>>, "")
SystemArray ==
    Message("system", ArrayContent(<<TextItem(<<"t", " ">>), ImageItem(PngUrl)>>), <<>>, "")
AssistantCall1 == Message("assistant", NullContent, <<Call1>>, "")
AssistantBlankCall2 == Message("assistant", StringContent(<<" ">>), <<Call2>>, "")
AssistantText == Message("assistant", StringContent(<<"a", " ">>), <<>>, "")
AssistantTextCall1 == Message("assistant", StringContent(<<"a", " ">>), <<Call1>>, "")
AssistantEmpty == Message("assistant", NullContent, <<>>, "")
Tool1 == Message("tool", StringContent(<<"r">>), <<>>, "id1")
Tool2 == Message("tool", StringContent(<<"q">>), <<>>, "id2")

ClientMessages ==
    {UserText, UserImage, SystemArray,
     AssistantCall1, AssistantBlankCall2, AssistantText, AssistantTextCall1, AssistantEmpty,
     Tool1, Tool2}

\* the smaller alphabet of the system-instruction specification
SystemStudyMessages ==
    {SystemBlank, SystemText, SystemArray, UserText, AssistantText, Tool1}

\* the alphabet of the name-resolution specification: one id, called under
\* two names and under the empty name
UnnamedCall1 == ToolCall("id1", "", "x")
RenamedCall1 == ToolCall("id1", "h", "z")
AssistantUnnamedCall1 == Message("assistant", NullContent, <<UnnamedCall1>>, "")
AssistantRenamedCall1 == Message("assistant", NullContent, <<RenamedCall1>>, "")

ScanStudyMessages ==
    {UserText, SystemText, AssistantCall1, AssistantUnnamedCall1, AssistantRenamedCall1,
     Tool1}

\* the inputs of the envelope specification
EnvelopeStudyMessages == {UserText, SystemBlank, SystemText, AssistantCall1, Tool1}
EnvelopeBases == {<<>>, <<"B">>}
SearchTool ==
    Tool("f", "d", JObj(<<Entry("type", JStr("object")), Entry("$schema", JStr("s"))>>))
BareTool == Tool("g", "", JNull)
ClientTools ==
    {NoTools, ToolList(<<>>), ToolList(<<SearchTool>>), ToolList(<<SearchTool, BareTool>>)}

DefaultBase == <<"B">>
BaseInstructions == {<<>>, <<"B">>, <<"B", "\n">>, <<" ">>}

ListsOver(alphabet) == UNION {[1..n -> alphabet] : n \in 0..MaxMsgs}

NoRequest == [built |-> FALSE, contents |-> <<>>,
              hasTools |-> FALSE, tools |-> <<>>,
              hasSystemInstruction |-> FALSE, systemInstructionText |-> <<>>]

----------------------------------------------------------------------------
(* generateRequestBody, one action per step *)

InitRequest ==
    /\ pc = "start"
    /\ mergedSystemInstruction = <<>>
    /\ startIndex = 0
    /\ idx = 1
    /\ antigravityMessages = <<>>
    /\ requestBody = NoRequest

Init ==
    /\ openaiMessages \in ListsOver(ClientMessages)
    /\ baseSystem = DefaultBase
    /\ openaiTools = NoTools
    /\ InitRequest
    /\ GenIdle
    /\ CleanIdle
    /\ ExtractIdle
    /\ DnsIdle
    /\ CacheIdle
    /\ EnvIdle
    /\ IpIdle

InitSys ==
    /\ openaiMessages \in ListsOver(SystemStudyMessages)
    /\ baseSystem \in BaseInstructions
    /\ openaiTools = NoTools
    /\ InitRequest
    /\ GenIdle
    /\ CleanIdle
    /\ ExtractIdle
    /\ DnsIdle
    /\ CacheIdle
    /\ EnvIdle
    /\ IpIdle

InitScan ==
    /\ openaiMessages \in ListsOver(ScanStudyMessages)
    /\ baseSystem = DefaultBase
    /\ openaiTools = NoTools
    /\ InitRequest
    /\ GenIdle
    /\ CleanIdle
    /\ ExtractIdle
    /\ DnsIdle
    /\ CacheIdle
    /\ EnvIdle
    /\ IpIdle

InitEnvelope ==
    /\ openaiMessages \in ListsOver(EnvelopeStudyMessages)
    /\ baseSystem \in EnvelopeBases
    /\ openaiTools \in ClientTools
    /\ InitRequest
    /\ GenIdle
    /\ CleanIdle
    /\ ExtractIdle
    /\ DnsIdle
    /\ CacheIdle
    /\ EnvIdle
    /\ IpIdle

\* lines 318-329: the merged instruction and the filter of the leading run
ExtractSystem ==
    /\ pc = "start"
    /\ mergedSystemInstruction' = extractSystemInstruction(openaiMessages, baseSystem)
    /\ startIndex' = LeadingSystemCount(openaiMessages)
    /\ idx' = LeadingSystemCount(openaiMessages) + 1
    /\ antigravityMessages' = <<>>
    /\ pc' = "convert"
    /\ UNCHANGED <<openaiMessages, baseSystem, requestBody, openaiTools>>
    /\ UNCHANGED <<genVars, cleanVars, extractVars, dnsVars, cacheVars, envVars, ipVars>>

Looping == pc = "convert" /\ idx <= Len(openaiMessages)

LoopStep(turns) ==
    /\ antigravityMessages' = turns
    /\ idx' = idx + 1
    /\ UNCHANGED <<openaiMessages, baseSystem, pc, mergedSystemInstruction,
                   startIndex, requestBody, openaiTools>>
    /\ UNCHANGED <<genVars, cleanVars, extractVars, dnsVars, cacheVars, envVars, ipVars>>

LoopUser ==
    /\ Looping
    /\ openaiMessages[idx].role = "user"
    /\ LoopStep(ConvertUser(openaiMessages[idx], antigravityMessages))

LoopSystem ==
    /\ Looping
    /\ openaiMessages[idx].role = "system"
    /\ LoopStep(ConvertSystem(openaiMessages[idx], antigravityMessages))

LoopAssistant ==
    /\ Looping
    /\ openaiMessages[idx].role = "assistant"
    /\ LoopStep(handleAssistantMessage(openaiMessages[idx], antigravityMessages))

LoopTool ==
    /\ Looping
    /\ openaiMessages[idx].role = "tool"
    /\ LoopStep(handleToolCall(openaiMessages[idx], antigravityMessages))

\* lines 331-357: the envelope; tools is a key of the object literal, set to
\* whatever the conversion returns; systemInstruction is added only when the
\* text is truthy
BuildRequest ==
    /\ pc = "convert"
    /\ idx > Len(openaiMessages)
    /\ requestBody' = [built |-> TRUE,
                       contents |-> antigravityMessages,
                       hasTools |-> TRUE,
                       tools |-> convertOpenAIToolsToAntigravity(openaiTools),
                       hasSystemInstruction |-> mergedSystemInstruction # <<>>,
                       systemInstructionText |-> mergedSystemInstruction]
    /\ pc' = "done"
    /\ UNCHANGED <<openaiMessages, baseSystem, mergedSystemInstruction, startIndex,
                   idx, antigravityMessages, openaiTools>>
    /\ UNCHANGED <<genVars, cleanVars, extractVars, dnsVars, cacheVars, envVars, ipVars>>

Next ==
    \/ ExtractSystem
    \/ LoopUser
    \/ LoopSystem
    \/ LoopAssistant
    \/ LoopTool
    \/ BuildRequest

Spec == Init /\ [][Next]_vars

SpecSys == InitSys /\ [][Next]_vars

SpecScan == InitScan /\ [][Next]_vars

SpecEnvelope == InitEnvelope /\ [][Next]_vars

MsgIdle ==
    /\ openaiMessages = <<>>
    /\ baseSystem = DefaultBase
    /\ openaiTools = NoTools
    /\ pc = "idle"
    /\ mergedSystemInstruction = <<>>
    /\ startIndex = 0
    /\ idx = 1
    /\ antigravityMessages = <<>>
    /\ requestBody = NoRequest

----------------------------------------------------------------------------
(* generateRequestBody: the model policy and the generation config *)

ClientModels ==
    {<<"claude-sonnet-4-5", "-thinking">>, <<"claude-sonnet-4-5">>,
     <<"claude-opus-4-5">>, <<"claude-opus-4-5", "-thinking">>,
     <<"gemini-2.5-flash", "-thinking">>, <<"gemini-2.5-flash">>,
     <<"gemini-2.5-pro">>, <<"gemini-3-pro-", "high">>,
     <<"rev19-uic3-1p">>, <<"gpt-oss-120b-medium">>, <<"gpt-4">>}

ClientBudgets == {Undefined, Null, Num(0), Num(5000)}
ClientEfforts ==
    {NoEffort, Effort("low"), Effort("medium"), Effort("high"), Effort("none"),
     Effort("toString")}
ClientNumbers == {Undefined, Num(7)}
ClientTopP == {Undefined, Null, Num(0), Num(7)}
ConfiguredBudgets == {Undefined, Num(0), Num(8000)}

InitGen ==
    /\ modelName \in ClientModels
    /\ parameters \in
        [thinking_budget : ClientBudgets, reasoning_effort : ClientEfforts,
         top_p : ClientTopP, top_k : {Undefined}, temperature : {Undefined},
         max_tokens : ClientNumbers]
    /\ configDefaults \in
        [thinking_budget : ConfiguredBudgets, top_p : {Num(85)}, top_k : {Num(50)},
         temperature : {Num(1)}, max_tokens : {Num(8096)}]
    /\ genPc = "start"
    /\ enableThinking = FALSE
    /\ actualModelName = <<>>
    /\ generationConfig = NoGenerationConfig
    /\ MsgIdle
    /\ CleanIdle
    /\ ExtractIdle
    /\ DnsIdle
    /\ CacheIdle
    /\ EnvIdle
    /\ IpIdle

\* line 314
ResolveThinking ==
    /\ genPc = "start"
    /\ enableThinking' = isEnableThinking(modelName)
    /\ genPc' = "policy"
    /\ UNCHANGED <<modelName, parameters, configDefaults, actualModelName, generationConfig>>
    /\ UNCHANGED <<msgVars, cleanVars, extractVars, dnsVars, cacheVars, envVars, ipVars>>

\* line 315
MapModel ==
    /\ genPc = "policy"
    /\ actualModelName' = modelMapping(modelName)
    /\ genPc' = "mapped"
    /\ UNCHANGED <<modelName, parameters, configDefaults, enableThinking, generationConfig>>
    /\ UNCHANGED <<msgVars, cleanVars, extractVars, dnsVars, cacheVars, envVars, ipVars>>

\* line 342
GenerateConfig ==
    /\ genPc = "mapped"
    /\ generationConfig' = generateGenerationConfig(parameters, enableThinking, actualModelName)
    /\ genPc' = "done"
    /\ UNCHANGED <<modelName, parameters, configDefaults, enableThinking, actualModelName>>
    /\ UNCHANGED <<msgVars, cleanVars, extractVars, dnsVars, cacheVars, envVars, ipVars>>

NextGen ==
    \/ ResolveThinking
    \/ MapModel
    \/ GenerateConfig

SpecGen == InitGen /\ [][NextGen]_vars

----------------------------------------------------------------------------
(* convertOpenAIToolsToAntigravity: the normalizer applied to a schema,    *)
(* and applied again to its own result                                     *)

MaxEntries == 2

Leaves == {JStr("string"), JNum("1"), JNull}
LeafKeys == {"type", "minLength", "maxLength"}
NodeKeys == {"properties", "additionalProperties", "items"}

DistinctKeys(entries) ==
    \A i, j \in 1..Len(entries) : i # j => entries[i].k # entries[j].k

ObjectsOver(keys, values) ==
    {JObj(entries) :
        entries \in {e \in UNION {[1..n -> {Entry(key, val) : key \in keys, val \in values}]
                                    : n \in 0..MaxEntries} : DistinctKeys(e)}}

ArraysOver(values) ==
    {JArr(elems) : elems \in UNION {[1..n -> values] : n \in 0..MaxEntries}}

FlatSchemas == ObjectsOver(LeafKeys, Leaves) \cup ArraysOver(Leaves)

\* the schemas nested inside other schemas
InnerSchemas ==
    {JObj(<<Entry("type", JStr("string"))>>),
     JObj(<<Entry("minLength", JNum("1")), Entry("maxLength", JNum("1"))>>),
     JObj(<<Entry("minLength", JNum("1")), Entry("type", JStr("string"))>>),
     JArr(<<JObj(<<Entry("$schema", JStr("string")), Entry("type", JNull)>>), JNum("1")>>)}

NestedSchemas == ObjectsOver(NodeKeys, InnerSchemas) \cup ArraysOver(InnerSchemas)

DeepSchemas ==
    {JObj(<<Entry("properties", JObj(<<Entry("items", inner)>>)),
            Entry("uniqueItems", JBool("true"))>>) : inner \in InnerSchemas}

\* schemas with a property called __proto__, as JSON.parse builds them
PrototypeKeySchemas ==
    {JObj(<<Entry("properties",
                  JObj(<<Entry("__proto__", val), Entry("type", JStr("string"))>>))>>)
        : val \in {JStr("string"), JObj(<<Entry("type", JStr("string"))>>)}}

Schemas ==
    Leaves \cup FlatSchemas \cup NestedSchemas \cup DeepSchemas \cup PrototypeKeySchemas

InitClean ==
    /\ schema \in Schemas
    /\ cleanPc = "start"
    /\ cleaned = JNull
    /\ cleanedTwice = JNull
    /\ MsgIdle
    /\ GenIdle
    /\ ExtractIdle
    /\ DnsIdle
    /\ CacheIdle
    /\ EnvIdle
    /\ IpIdle

\* line 286: parameters: cleanParameters(tool.function.parameters)
CleanOnce ==
    /\ cleanPc = "start"
    /\ cleaned' = cleanParameters(schema)
    /\ cleanPc' = "once"
    /\ UNCHANGED <<schema, cleanedTwice>>
    /\ UNCHANGED <<msgVars, genVars, extractVars, dnsVars, cacheVars, envVars, ipVars>>

\* the normalizer applied to a schema it has already normalized
CleanAgain ==
    /\ cleanPc = "once"
    /\ cleanedTwice' = cleanParameters(cleaned)
    /\ cleanPc' = "twice"
    /\ UNCHANGED <<schema, cleaned>>
    /\ UNCHANGED <<msgVars, genVars, extractVars, dnsVars, cacheVars, envVars, ipVars>>

NextClean ==
    \/ CleanOnce
    \/ CleanAgain

SpecClean == InitClean /\ [][NextClean]_vars

----------------------------------------------------------------------------
(* extractImagesFromContent called on its own, on content lists that also  *)
(* hold items of no known shape                                            *)

MaxItems == 2

JpgUrl == <<"data:image/", "j", "p", "g", ";base64,", "e">>
HttpUrl == <<"h", "t", "t", "p">>

ContentItems ==
    {TextItem(<<"a">>),
     Item(FALSE, "text", FALSE, <<>>, "undefined", <<>>),
     ImageItem(PngUrl),
     ImageItem(JpgUrl),
     ImageItem(HttpUrl),
     Item(FALSE, "image_url", FALSE, <<>>, "undefined", <<>>),
     Item(FALSE, "image_url", FALSE, <<>>, "number", <<>>),
     Item(FALSE, "audio", FALSE, <<>>, "undefined", <<>>),
     NullItem}

ExtractContents ==
    {NullContent, StringContent(<<>>), StringContent(<<"a", " ">>)}
    \cup {ArrayContent(items) : items \in UNION {[1..n -> ContentItems] : n \in 0..MaxItems}}

InitExtract ==
    /\ extractInput \in ExtractContents
    /\ extractPc = "start"
    /\ extractOutput = NoExtract
    /\ MsgIdle
    /\ GenIdle
    /\ CleanIdle
    /\ DnsIdle
    /\ CacheIdle
    /\ EnvIdle
    /\ IpIdle

\* the call: it returns a result or throws
Extract ==
    /\ extractPc = "start"
    /\ extractOutput' = extractImagesFromContent(extractInput)
    /\ extractPc' = "done"
    /\ UNCHANGED extractInput
    /\ UNCHANGED <<msgVars, genVars, cleanVars, dnsVars, cacheVars, envVars, ipVars>>

NextExtract == Extract

SpecExtract == InitExtract /\ [][NextExtract]_vars

----------------------------------------------------------------------------
(* customLookup.  A dns.lookup call ends by calling back once, with an      *)
(* error, or with an address, or, for an empty host name only, with         *)
(* neither.  An error or an address that is "" stands for null.             *)

HostNames == {"", "a.test", "b.test", "c.test", "d.test"}
Addresses4 == {"192.0.2.1", "192.0.2.2", "192.0.2.3"}
Addresses6 == {"2001:db8::1", "2001:db8::2", "2001:db8::3"}
LookupErrors == {"ENOTFOUND", "EAI_AGAIN", "ESERVFAIL"}

Pending == [state |-> "pending", err |-> "", address |-> ""]
Returned(err, address) == [state |-> "returned", err |-> err, address |-> address]

\* the ways one dns.lookup call for the host can end
LookupResults(host, addresses) ==
    IF host = "" THEN {Returned("", "")}
    ELSE {Returned("", a) : a \in addresses} \cup {Returned(e, "") : e \in LookupErrors}

\* !err && address
Succeeded(lookup) == lookup.err = "" /\ lookup.address # ""

Callback(err, address, family) == [err |-> err, address |-> address, family |-> family]

\* seeded fault: the error of the IPv6 lookup is put first
BothFailedError_Ipv6First(err4, err6) == IF err6 # "" THEN err6 ELSE err4

\* err4 || err6
BothFailedError(err4, err6) == IF err4 # "" THEN err4 ELSE err6

InitDns ==
    /\ hostname \in HostNames
    /\ dnsPc = "start"
    /\ lookup4 = NoLookup
    /\ lookup6 = NoLookup
    /\ lookupOrder = <<>>
    /\ callbacks = <<>>
    /\ MsgIdle
    /\ GenIdle
    /\ CleanIdle
    /\ ExtractIdle
    /\ CacheIdle
    /\ EnvIdle
    /\ IpIdle

\* line 14: customLookup starts the lookup with family 4 and returns
StartLookup4 ==
    /\ dnsPc = "start"
    /\ lookup4' = Pending
    /\ lookupOrder' = Append(lookupOrder, 4)
    /\ dnsPc' = "wait4"
    /\ UNCHANGED <<hostname, lookup6, callbacks>>
    /\ UNCHANGED <<msgVars, genVars, cleanVars, extractVars, cacheVars, envVars, ipVars>>

\* lines 14-20: the callback of the first lookup
OnLookup4 ==
    /\ dnsPc = "wait4"
    /\ \E result \in LookupResults(hostname, Addresses4) :
        /\ lookup4' = result
        /\ IF Succeeded(result)
           THEN /\ callbacks' = Append(callbacks, Callback("", result.address, 4))
                /\ dnsPc' = "done"
                /\ UNCHANGED <<lookup6, lookupOrder>>
           ELSE /\ lookup6' = Pending
                /\ lookupOrder' = Append(lookupOrder, 6)
                /\ dnsPc' = "wait6"
                /\ UNCHANGED callbacks
    /\ UNCHANGED hostname
    /\ UNCHANGED <<msgVars, genVars, cleanVars, extractVars, cacheVars, envVars, ipVars>>

\* lines 20-28: the callback of the second lookup
OnLookup6 ==
    /\ dnsPc = "wait6"
    /\ \E result \in LookupResults(hostname, Addresses6) :
        /\ lookup6' = result
        /\ callbacks' =
              Append(callbacks,
                     IF Succeeded(result) THEN Callback("", result.address, 6)
                     ELSE Callback(BothFailedError(lookup4.err, result.err), "", 0))
    /\ dnsPc' = "done"
    /\ UNCHANGED <<hostname, lookup4, lookupOrder>>
    /\ UNCHANGED <<msgVars, genVars, cleanVars, extractVars, cacheVars, envVars, ipVars>>

NextDns ==
    \/ StartLookup4
    \/ OnLookup4
    \/ OnLookup6

SpecDns == InitDns /\ [][NextDns]_vars

\* every dns.lookup call that was started calls back
SpecDnsLive == SpecDns /\ WF_vars(NextDns)

----------------------------------------------------------------------------
(* The signature cache.  buildConfig derives the policy flags; the cache    *)
(* itself is modelled from its specification: put(key, token, category)    *)
(* and get(key), with keys that belong to one category each.  A token of   *)
(* "" stands for absent.                                                   *)

FlagValues == {"undefined", "true", "false"}

ConfiguredFlags ==
    [cacheAllSignatures : {"undefined", "true"}, cacheToolSignatures : FlagValues,
     cacheImageSignatures : FlagValues, cacheThinking : FlagValues]

\* seeded fault: the tool flag is read from the image flag
buildConfig_ToolFromImage(other) ==
    [cacheAllSignatures |-> other.cacheAllSignatures = "true",
     cacheToolSignatures |-> other.cacheImageSignatures # "false",
     cacheImageSignatures |-> other.cacheImageSignatures # "false",
     cacheThinking |-> other.cacheThinking # "false"]

\* config.js lines 356-361: === true for the first flag, !== false for the
\* three category flags
buildConfig(other) ==
    [cacheAllSignatures |-> other.cacheAllSignatures = "true",
     cacheToolSignatures |-> other.cacheToolSignatures # "false",
     cacheImageSignatures |-> other.cacheImageSignatures # "false",
     cacheThinking |-> other.cacheThinking # "false"]

Categories == {"tool", "image", "thinking"}
KeysOf(category) ==
    IF category = "tool" THEN {"call_1", "call_2"}
    ELSE IF category = "image" THEN {"turn1.part1"}
    ELSE {"turn1.part0"}
Tokens == {"sig1", "sig2"}

\* whether the flags let this category be cached
CategoryCached(flags, category) ==
    IF category = "tool" THEN flags.cacheToolSignatures
    ELSE IF category = "image" THEN flags.cacheImageSignatures
    ELSE flags.cacheThinking

CacheEntry(key, token, category) == [key |-> key, token |-> token, category |-> category]

\* put: a no-op for a category that is not cached, else the entry of the key
\* is replaced
put(cache, flags, key, token, category) ==
    IF ~CategoryCached(flags, category) THEN cache
    ELSE {e \in cache : e.key # key} \cup {CacheEntry(key, token, category)}

\* get: absent for a category that is not cached and for a key never put
get(cache, flags, key, category) ==
    IF ~CategoryCached(flags, category) THEN ""
    ELSE IF \E e \in cache : e.key = key
    THEN (CHOOSE e \in cache : e.key = key).token
    ELSE ""

InitCache ==
    /\ jsonOther \in ConfiguredFlags
    /\ sigConfig = buildConfig(jsonOther)
    /\ sigCache = {}
    /\ lastCall = [op |-> "start", category |-> "", key |-> "", token |-> ""]
    /\ MsgIdle
    /\ GenIdle
    /\ CleanIdle
    /\ ExtractIdle
    /\ DnsIdle
    /\ EnvIdle
    /\ IpIdle

Put ==
    /\ lastCall.op # "none"
    /\ \E category \in Categories : \E key \in KeysOf(category) : \E token \in Tokens :
        /\ sigCache' = put(sigCache, sigConfig, key, token, category)
        /\ lastCall' = [op |-> "put", category |-> category, key |-> key, token |-> token]
    /\ UNCHANGED <<jsonOther, sigConfig>>
    /\ UNCHANGED <<msgVars, genVars, cleanVars, extractVars, dnsVars, envVars, ipVars>>

Get ==
    /\ lastCall.op # "none"
    /\ \E category \in Categories : \E key \in KeysOf(category) :
        lastCall' = [op |-> "get", category |-> category, key |-> key,
                     token |-> get(sigCache, sigConfig, key, category)]
    /\ UNCHANGED <<jsonOther, sigConfig, sigCache>>
    /\ UNCHANGED <<msgVars, genVars, cleanVars, extractVars, dnsVars, envVars, ipVars>>

NextCache ==
    \/ Put
    \/ Get

SpecCache == InitCache /\ [][NextCache]_vars

----------------------------------------------------------------------------
(* parseEnvFile.  A line is a sequence of characters; the file is the list *)
(* of its lines.  envData is the set of the assignments, one per key.      *)

MaxLines == 3

Quotes == {"\"", "'"}

StartsWith(s, c) == s # <<>> /\ s[1] = c
EndsWith(s, c) == s # <<>> /\ s[Len(s)] = c

\* line.indexOf('='), 1-based, 0 when there is none
EqIndex(line) ==
    IF \E k \in 1..Len(line) : line[k] = "="
    THEN CHOOSE k \in 1..Len(line) : line[k] = "=" /\ \A j \in 1..(k - 1) : line[j] # "="
    ELSE 0

\* envData[key] = value
Assign(data, key, value) ==
    {e \in data : e.key # key} \cup {[key |-> key, value |-> value]}

\* lines 55-58: a value inside a pair of equal quotes loses them
Unquote(value) ==
    IF \E q \in Quotes : StartsWith(value, q) /\ EndsWith(value, q)
    THEN SubSeq(value, 2, Len(value) - 1)
    ELSE value

\* lines 45-46: the value opens a multi-line string
OpensMultiline(trimmedValue) ==
    /\ trimmedValue # <<>>
    /\ trimmedValue[1] \in Quotes
    /\ ~EndsWith(trimmedValue, trimmedValue[1])

EnvLines ==
    {<<"K", "=", "\"", "a">>,
     <<"K", "=", "\"">>,
     <<"b", "\"">>,
     <<"b", "\"", " ">>,
     <<>>,
     <<"#", "c">>,
     <<"c">>,
     <<"J", "=", "v">>,
     <<" ", "J", " ", "=", " ", "'", "v", "'">>,
     <<"J", "=", "d", "\"">>}

InitEnv ==
    /\ envLines \in UNION {[1..n -> EnvLines] : n \in 0..MaxLines}
    /\ envI = 1
    /\ currentKey = <<>>
    /\ currentValue = <<>>
    /\ inMultiline = FALSE
    /\ quoteChar = ""
    /\ envData = {}
    /\ envPc = "loop"
    /\ MsgIdle
    /\ GenIdle
    /\ CleanIdle
    /\ ExtractIdle
    /\ DnsIdle
    /\ CacheIdle
    /\ IpIdle

\* lines 20-32: one more line of a multi-line value
CollectLine ==
    /\ envPc = "loop"
    /\ envI <= Len(envLines)
    /\ inMultiline
    /\ LET line == envLines[envI]
           collected == currentValue \o <<"\n">> \o line
       IN IF EndsWith(TrimEnd(line), quoteChar)
          THEN /\ envData' = Assign(envData, currentKey,
                                    SubSeq(collected, 1, Len(collected) - 1))
               /\ inMultiline' = FALSE
               /\ currentKey' = <<>>
               /\ currentValue' = <<>>
               /\ quoteChar' = ""
          ELSE /\ currentValue' = collected
               /\ UNCHANGED <<envData, inMultiline, currentKey, quoteChar>>
    /\ envI' = envI + 1
    /\ UNCHANGED <<envLines, envPc>>
    /\ UNCHANGED <<msgVars, genVars, cleanVars, extractVars, dnsVars, cacheVars, ipVars>>

\* lines 33-61: a line outside a multi-line value
ParseLine ==
    /\ envPc = "loop"
    /\ envI <= Len(envLines)
    /\ ~inMultiline
    /\ LET line == Trim(envLines[envI])
           eqIndex == EqIndex(line)
           key == Trim(SubSeq(line, 1, eqIndex - 1))
           value == SubSeq(line, eqIndex + 1, Len(line))
           trimmedValue == TrimStart(value)
       IN IF line = <<>> \/ StartsWith(line, "#") \/ eqIndex = 0
          THEN UNCHANGED <<currentKey, currentValue, inMultiline, quoteChar, envData>>
          ELSE IF OpensMultiline(trimmedValue)
          THEN /\ quoteChar' = trimmedValue[1]
               /\ currentKey' = key
               /\ currentValue' = Tail(trimmedValue)
               /\ inMultiline' = TRUE
               /\ UNCHANGED envData
          ELSE /\ envData' = Assign(envData, key, Unquote(Trim(value)))
               /\ UNCHANGED <<currentKey, currentValue, inMultiline, quoteChar>>
    /\ envI' = envI + 1
    /\ UNCHANGED <<envLines, envPc>>
    /\ UNCHANGED <<msgVars, genVars, cleanVars, extractVars, dnsVars, cacheVars, ipVars>>

\* lines 64-69: an unclosed multi-line value, then the return
FinishParse ==
    /\ envPc = "loop"
    /\ envI > Len(envLines)
    /\ envData' = IF inMultiline /\ currentKey # <<>>
                  THEN Assign(envData, currentKey, currentValue)
                  ELSE envData
    /\ envPc' = "done"
    /\ UNCHANGED <<envLines, envI, currentKey, currentValue, inMultiline, quoteChar>>
    /\ UNCHANGED <<msgVars, genVars, cleanVars, extractVars, dnsVars, cacheVars, ipVars>>

NextEnv ==
    \/ CollectLine
    \/ ParseLine
    \/ FinishParse

SpecEnv == InitEnv /\ [][NextEnv]_vars

----------------------------------------------------------------------------
(* IpBlockManager.  An address is the sequence of its characters.  Times   *)
(* are milliseconds; the clock starts at StartTime and advances by the     *)
(* steps of ClockSteps, at most MaxTicks times.                            *)

TEMP_BLOCK_DURATION == 3600000      \* 60 * 60 * 1000
MAX_VIOLATIONS_BEFORE_TEMP_BLOCK == 20
MAX_TEMP_BLOCKS_BEFORE_PERMANENT == 3
VIOLATION_WINDOW == 60000      \* 60 * 1000

MaxTicks == 2
MaxCalls == 2
StartTime == 10000000

NoIp == <<>>
Outside == <<"8", ".", "8", ".", "8", ".", "8">>
Loopback == <<"1", "2", "7", ".", "0", ".", "0", ".", "1">>
LoopbackNet == <<"1", "2", "7", ".", "9", ".", "9", ".", "9">>
Ipv6Loopback == <<":", ":", "1">>
MappedLoopback == <<":", ":", "f", "f", "f", "f", ":">> \o Loopback
Localhost == <<"l", "o", "c", "a", "l", "h", "o", "s", "t">>

WHITELISTED_IPS == {Loopback, Ipv6Loopback, MappedLoopback, Localhost}

LoopbackPrefix == <<"1", "2", "7", ".">>

HasPrefix(s, prefix) ==
    /\ Len(s) >= Len(prefix)
    /\ SubSeq(s, 1, Len(prefix)) = prefix

\* seeded fault: only the listed addresses are whitelisted
isWhitelisted_ListOnly(ip) ==
    IF ip = NoIp THEN FALSE
    ELSE ip \in WHITELISTED_IPS

isWhitelisted(ip) ==
    IF ip = NoIp THEN FALSE
    ELSE ip \in WHITELISTED_IPS \/ HasPrefix(ip, LoopbackPrefix)

\* the addresses of the callers
Ips == {NoIp, Outside, Loopback, LoopbackNet, Ipv6Loopback}

\* the addresses a block list can hold a record for
Keys == Ips \ {NoIp}

\* A record of blocked_ips.  since is a history field the program does not
\* have: the time of the first violation of the record's current count (of
\* the count that triggered the block, once the block is triggered).
Info(permanent, expiresAt, violations, tempBlockCount, lastViolation, since) ==
    [exists |-> TRUE, permanent |-> permanent, expiresAt |-> expiresAt,
     violations |-> violations, tempBlockCount |-> tempBlockCount,
     lastViolation |-> lastViolation, since |-> since]

NoInfo ==
    [exists |-> FALSE, permanent |-> FALSE, expiresAt |-> 0, violations |-> 0,
     tempBlockCount |-> 0, lastViolation |-> 0, since |-> 0]

NewInfo == Info(FALSE, 0, 0, 0, 0, 0)

EmptyList == [ip \in Keys |-> NoInfo]

\* the block-list file: unreadable (missing, or not JSON), or a list
File(readable, ips) == [readable |-> readable, ips |-> ips]

NoFile == File(FALSE, EmptyList)

\* load, lines 42-48: the parsed file, or an empty list
Parsed(file) == IF file.readable THEN file.ips ELSE EmptyList

\* seeded fault: a permanent block does not stop the counting
IsBlocked_TemporaryOnly(info, now) ==
    info.expiresAt # 0 /\ now < info.expiresAt

\* line 107: the record is under a block at time now
IsBlocked(info, now) ==
    info.permanent \/ (info.expiresAt # 0 /\ now < info.expiresAt)

\* a call that has returned: the return statement it left by, and what it
\* returned
Result(op, exit, blocked, reason, expiresAt) ==
    [op |-> op, exit |-> exit, blocked |-> blocked, reason |-> reason,
     expiresAt |-> expiresAt]

check(ip, data, now) ==
    IF ip = NoIp \/ isWhitelisted(ip) THEN Result("check", "line 70", FALSE, "", 0)
    ELSE LET info == data[ip]
         IN  IF ~info.exists THEN Result("check", "line 73", FALSE, "", 0)
             ELSE IF info.permanent
                  THEN Result("check", "line 76", TRUE, "permanent", 0)
             ELSE IF info.expiresAt # 0 /\ now < info.expiresAt
                  THEN Result("check", "line 80", TRUE, "temporary", info.expiresAt)
             ELSE Result("check", "line 83", FALSE, "", 0)

\* seeded fault: the block is triggered by the 21st counted violation
CountViolation_LateBlock(stored, now) ==
    LET info == IF stored.exists THEN stored ELSE NewInfo
    IN  IF IsBlocked(info, now)
        THEN [info |-> info, save |-> FALSE, exit |-> "blocked"]
        ELSE LET kept == IF now - info.lastViolation > VIOLATION_WINDOW
                         THEN 0 ELSE info.violations
                 since == IF kept = 0 THEN now ELSE info.since
                 count == kept + 1
                 blocks == info.tempBlockCount + 1
             IN  IF count > MAX_VIOLATIONS_BEFORE_TEMP_BLOCK
                 THEN IF blocks >= MAX_TEMP_BLOCKS_BEFORE_PERMANENT
                      THEN [info |-> Info(TRUE, 0, 0, blocks, now, since),
                            save |-> TRUE, exit |-> "counted"]
                      ELSE [info |-> Info(info.permanent, now + TEMP_BLOCK_DURATION,
                                          0, blocks, now, since),
                            save |-> TRUE, exit |-> "counted"]
                 ELSE [info |-> Info(info.permanent, info.expiresAt, count,
                                     info.tempBlockCount, now, since),
                       save |-> FALSE, exit |-> "counted"]

\* recordViolation, lines 95-131, on the record of the address: the record
\* afterwards, and whether save is called
CountViolation(stored, now) ==
    LET info == IF stored.exists THEN stored ELSE NewInfo
    IN  IF IsBlocked(info, now)
        THEN [info |-> info, save |-> FALSE, exit |-> "blocked"]
        ELSE LET kept == IF now - info.lastViolation > VIOLATION_WINDOW
                         THEN 0 ELSE info.violations
                 since == IF kept = 0 THEN now ELSE info.since
                 count == kept + 1
                 blocks == info.tempBlockCount + 1
             IN  IF count >= MAX_VIOLATIONS_BEFORE_TEMP_BLOCK
                 THEN IF blocks >= MAX_TEMP_BLOCKS_BEFORE_PERMANENT
                      THEN [info |-> Info(TRUE, 0, 0, blocks, now, since),
                            save |-> TRUE, exit |-> "counted"]
                      ELSE [info |-> Info(info.permanent, now + TEMP_BLOCK_DURATION,
                                          0, blocks, now, since),
                            save |-> TRUE, exit |-> "counted"]
                 ELSE [info |-> Info(info.permanent, info.expiresAt, count,
                                     info.tempBlockCount, now, since),
                       save |-> FALSE, exit |-> "counted"]

\* seeded fault: the error of a failed write is thrown again
SettleWrite_Rethrow(ok) == IF ok THEN "fulfilled" ELSE "rejected"

\* save, lines 58-65: how the link of the chain ends after its write
SettleWrite(ok) == "fulfilled"

Write(id, data) == [id |-> id, content |-> File(TRUE, data)]

\* save, lines 57-67, called while the list is data
Save(data) ==
    /\ savesCalled' = savesCalled + 1
    /\ IF savePromise = "rejected"
       THEN UNCHANGED <<saveQueue, writing, writeLog>>
       ELSE IF writing = {} /\ saveQueue = <<>>
       THEN /\ writing' = {Write(savesCalled + 1, data)}
            /\ writeLog' = Append(writeLog, savesCalled + 1)
            /\ UNCHANGED saveQueue
       ELSE /\ saveQueue' = Append(saveQueue, savesCalled + 1)
            /\ UNCHANGED <<writing, writeLog>>

\* recordViolation from line 92 on, while the list is data
Violate(ip, data) ==
    LET counted == CountViolation(data[ip], ipNow)
        after == [data EXCEPT ![ip] = counted.info]
    IN  /\ blockedIps' = after
        /\ lastIpCall' = Result("recordViolation",
                                IF counted.exit = "blocked" THEN "line 107" ELSE "line 132",
                                FALSE, "", 0)
        /\ IF counted.save
           THEN Save(after)
           ELSE UNCHANGED <<saveQueue, writing, writeLog, savesCalled>>

\* the lists a block-list file holds when the process starts
StoredList ==
    [EmptyList EXCEPT
        ![Loopback] = Info(TRUE, 0, 0, 3, StartTime - 1, StartTime - 1),
        ![LoopbackNet] = Info(FALSE, StartTime + TEMP_BLOCK_DURATION, 0, 1,
                              StartTime, StartTime),
        ![Outside] = Info(FALSE, StartTime - 1, 0, 1,
                          StartTime - 1 - TEMP_BLOCK_DURATION,
                          StartTime - 1 - TEMP_BLOCK_DURATION)]

Files == {NoFile, File(TRUE, StoredList)}

ClockSteps == {1, VIOLATION_WINDOW, TEMP_BLOCK_DURATION - 1}

NoIpCall == Result("", "", FALSE, "", 0)

InitIp ==
    /\ ipNow = StartTime
    /\ ipTicks = 0
    /\ blockedIps = EmptyList
    /\ initialized = FALSE
    /\ fileData \in Files
    /\ ipCalls = <<>>
    /\ loadCount = 0
    /\ saveQueue = <<>>
    /\ writing = {}
    /\ writeLog = <<>>
    /\ savesCalled = 0
    /\ savePromise = "fulfilled"
    /\ lastIpCall = NoIpCall
    /\ MsgIdle /\ GenIdle /\ CleanIdle /\ ExtractIdle /\ DnsIdle /\ CacheIdle
    /\ EnvIdle

Remove(seq, k) == SubSeq(seq, 1, k - 1) \o SubSeq(seq, k + 1, Len(seq))

\* Date.now() advances
Tick ==
    /\ ipTicks < MaxTicks
    /\ \E step \in ClockSteps : ipNow' = ipNow + step
    /\ ipTicks' = ipTicks + 1
    /\ UNCHANGED <<blockedIps, initialized, fileData, ipCalls, loadCount, saveQueue,
                   writing, writeLog, savesCalled, savePromise, lastIpCall>>
    /\ UNCHANGED <<msgVars, genVars, cleanVars, extractVars, dnsVars, cacheVars, envVars>>

Check ==
    /\ \E ip \in Ips : lastIpCall' = check(ip, blockedIps, ipNow)
    /\ UNCHANGED <<ipNow, ipTicks, blockedIps, initialized, fileData, ipCalls,
                   loadCount, saveQueue, writing, writeLog, savesCalled, savePromise>>
    /\ UNCHANGED <<msgVars, genVars, cleanVars, extractVars, dnsVars, cacheVars, envVars>>

\* recordViolation, line 87: no address, or a whitelisted one
RecordIgnored ==
    /\ \E ip \in Ips :
          /\ ip = NoIp \/ isWhitelisted(ip)
          /\ lastIpCall' = Result("recordViolation", "line 87", FALSE, "", 0)
    /\ UNCHANGED <<ipNow, ipTicks, blockedIps, initialized, fileData, ipCalls,
                   loadCount, saveQueue, writing, writeLog, savesCalled, savePromise>>
    /\ UNCHANGED <<msgVars, genVars, cleanVars, extractVars, dnsVars, cacheVars, envVars>>

\* recordViolation, lines 87-90, before init: the call runs into load and
\* waits at fs.mkdir
RecordAwaitInit ==
    /\ ~initialized
    /\ Len(ipCalls) < MaxCalls
    /\ \E ip \in Ips :
          /\ ~(ip = NoIp \/ isWhitelisted(ip))
          /\ ipCalls' = Append(ipCalls, [ip |-> ip, at |-> "mkdir", content |-> NoFile])
    /\ UNCHANGED <<ipNow, ipTicks, blockedIps, initialized, fileData, loadCount,
                   saveQueue, writing, writeLog, savesCalled, savePromise, lastIpCall>>
    /\ UNCHANGED <<msgVars, genVars, cleanVars, extractVars, dnsVars, cacheVars, envVars>>

\* recordViolation, lines 87-132, once initialized
RecordViolation ==
    /\ initialized
    /\ \E ip \in Ips :
          /\ ~(ip = NoIp \/ isWhitelisted(ip))
          /\ Violate(ip, blockedIps)
    /\ UNCHANGED <<ipNow, ipTicks, initialized, fileData, ipCalls, loadCount,
                   savePromise>>
    /\ UNCHANGED <<msgVars, genVars, cleanVars, extractVars, dnsVars, cacheVars, envVars>>

\* load, lines 40-43: fs.mkdir is done and fs.readFile reads the file
ReadFile ==
    /\ \E k \in 1..Len(ipCalls) :
          /\ ipCalls[k].at = "mkdir"
          /\ ipCalls' = [ipCalls EXCEPT ![k] = [@ EXCEPT !.at = "read",
                                                         !.content = fileData]]
    /\ UNCHANGED <<ipNow, ipTicks, blockedIps, initialized, fileData, loadCount,
                   saveQueue, writing, writeLog, savesCalled, savePromise, lastIpCall>>
    /\ UNCHANGED <<msgVars, genVars, cleanVars, extractVars, dnsVars, cacheVars, envVars>>

\* load, lines 43-48, then init, line 34, then recordViolation from line 92
LoadDone ==
    /\ \E k \in 1..Len(ipCalls) :
          /\ ipCalls[k].at = "read"
          /\ Violate(ipCalls[k].ip, Parsed(ipCalls[k].content))
          /\ ipCalls' = Remove(ipCalls, k)
    /\ loadCount' = loadCount + 1
    /\ initialized' = TRUE
    /\ UNCHANGED <<ipNow, ipTicks, fileData, savePromise>>
    /\ UNCHANGED <<msgVars, genVars, cleanVars, extractVars, dnsVars, cacheVars, envVars>>

\* load, lines 38-40 and 52-54: fs.mkdir fails and this.data is left as it
\* is; then init, line 34, then recordViolation from line 92
LoadFailed ==
    /\ \E k \in 1..Len(ipCalls) :
          /\ ipCalls[k].at = "mkdir"
          /\ Violate(ipCalls[k].ip, blockedIps)
          /\ ipCalls' = Remove(ipCalls, k)
    /\ initialized' = TRUE
    /\ UNCHANGED <<ipNow, ipTicks, fileData, loadCount, savePromise>>
    /\ UNCHANGED <<msgVars, genVars, cleanVars, extractVars, dnsVars, cacheVars, envVars>>

\* save, lines 58-65: fs.writeFile ends, and the next link of the chain runs
FinishWrite ==
    /\ writing # {}
    /\ \E write \in writing, ok \in BOOLEAN :
          /\ fileData' = IF ok THEN write.content ELSE fileData
          /\ savePromise' = SettleWrite(ok)
          /\ IF SettleWrite(ok) = "rejected"
             THEN /\ writing' = {}
                  /\ saveQueue' = <<>>
                  /\ UNCHANGED writeLog
             ELSE IF saveQueue # <<>>
             THEN /\ writing' = (writing \ {write})
                                    \cup {Write(Head(saveQueue), blockedIps)}
                  /\ writeLog' = Append(writeLog, Head(saveQueue))
                  /\ saveQueue' = Tail(saveQueue)
             ELSE /\ writing' = writing \ {write}
                  /\ UNCHANGED <<saveQueue, writeLog>>
    /\ UNCHANGED <<ipNow, ipTicks, blockedIps, initialized, ipCalls, loadCount,
                   savesCalled, lastIpCall>>
    /\ UNCHANGED <<msgVars, genVars, cleanVars, extractVars, dnsVars, cacheVars, envVars>>

NextIp ==
    \/ Tick
    \/ Check
    \/ RecordIgnored
    \/ RecordAwaitInit
    \/ RecordViolation
    \/ ReadFile
    \/ LoadDone
    \/ LoadFailed
    \/ FinishWrite

SpecIp == InitIp /\ [][NextIp]_vars

----------------------------------------------------------------------------
(* Vocabulary of the properties *)

\* the messages the loop has consumed so far
Processed == SubSeq(openaiMessages, startIndex + 1, idx - 1)

Contents == antigravityMessages

RECURSIVE CallsOf(_)
CallsOf(messages) ==
    IF messages = <<>> THEN <<>> ELSE messages[1].tool_calls \o CallsOf(Tail(messages))

IsBlankText(content) ==
    content.kind # "string" \/ \A k \in 1..Len(content.text) : IsSpace(content.text[k])

\* an assistant message that carries tool calls and no text
CallsOnly(m) == m.role = "assistant" /\ Len(m.tool_calls) >= 1 /\ IsBlankText(m.content)

\* messages p..q-1 of list are assistant messages with calls and no text,
\* messages q..Len(list) are tool messages answering every call in order
ToolRound(list, p, q) ==
    /\ 1 <= p /\ p < q /\ q <= Len(list)
    /\ \A k \in p..(q - 1) : CallsOnly(list[k])
    /\ \A k \in q..Len(list) : list[k].role = "tool"
    /\ LET calls == CallsOf(SubSeq(list, p, q - 1))
       IN /\ Len(calls) = Len(list) - q + 1
          /\ \A k \in 1..Len(calls) : calls[k].id = list[q + k - 1].tool_call_id

ExpectedCalls(list, p, q) ==
    LET calls == CallsOf(SubSeq(list, p, q - 1))
    IN [k \in 1..Len(calls) |-> FunctionCall(calls[k].id, calls[k].name, calls[k].arguments)]

\* a part without its name
Anonymous(part) == [part EXCEPT !.name = ""]

ExpectedResponses(list, q) ==
    [k \in 1..(Len(list) - q + 1) |->
        FunctionResponse(list[q + k - 1].tool_call_id, "", list[q + k - 1].content)]

Suffix(seq, n) == SubSeq(seq, Len(seq) - n + 1, Len(seq))

RoundCollapsed(list, p, q) ==
    LET L == Len(Contents)
        before == openaiMessageToAntigravity(SubSeq(list, 1, p - 1))
        merged == before # <<>> /\ Last(before).role = "model"
        calls == ExpectedCalls(list, p, q)
    IN /\ L >= 2
       /\ L = Len(before) + (IF merged THEN 1 ELSE 2)
       /\ Contents[L - 1].role = "model"
       /\ Len(Contents[L - 1].parts) >= Len(calls)
       /\ Suffix(Contents[L - 1].parts, Len(calls)) = calls
       /\ (~merged => Contents[L - 1].parts = calls)
       /\ Contents[L].role = "user"
       /\ [k \in 1..Len(Contents[L].parts) |-> Anonymous(Contents[L].parts[k])]
            = ExpectedResponses(list, q)

----------------------------------------------------------------------------
\* C1: the upstream turn list never contains two adjacent turns with the
\* same role.
C1_NoAdjacentSameRole ==
    \A k \in 1..(Len(Contents) - 1) : Contents[k].role # Contents[k + 1].role

\* C2: n >= 1 consecutive assistant messages with tool calls and no text,
\* immediately followed by tool messages answering every call in order, yield
\* exactly one model turn holding all the functionCall parts in message order
\* followed by exactly one user turn holding all the functionResponse parts
\* in message order.
C2_ToolRoundCollapses ==
    \A p \in 1..Len(Processed) : \A q \in 1..Len(Processed) :
        ToolRound(Processed, p, q) => RoundCollapsed(Processed, p, q)

\* the example of the spec: two assistant messages with one call each, then
\* the two answers
C2_Witness ==
    /\ pc = "done"
    /\ Len(Processed) = 4
    /\ ToolRound(Processed, 1, 3)
    /\ Len(requestBody.contents) = 2
    /\ Len(requestBody.contents[1].parts) = 2
    /\ Len(requestBody.contents[2].parts) = 2

\* an id names one function: calls with the same id have the same name
IdsNameCalls(calls) ==
    \A i, j \in 1..Len(calls) : calls[i].id = calls[j].id => calls[i].name = calls[j].name

\* The walk of a message list in which the tool messages answer every call in
\* order: pending holds the calls not answered yet, answering says that the
\* answers of the current batch have begun.  ok = FALSE when the list is not
\* of that shape (or a call has no name, or two pending calls share an id but
\* not a name); names are the names of the calls answered, in order.
RECURSIVE AnsweredInOrder(_, _, _)
AnsweredInOrder(list, pending, answering) ==
    IF list = <<>> THEN [ok |-> TRUE, names |-> <<>>]
    ELSE LET m == list[1]
             bad == [ok |-> FALSE, names |-> <<>>]
         IN IF m.role = "assistant" /\ Len(m.tool_calls) >= 1
            THEN IF (pending = <<>> \/ ~answering)
                    /\ \A k \in 1..Len(m.tool_calls) : m.tool_calls[k].name # ""
                    /\ IdsNameCalls(pending \o m.tool_calls)
                 THEN AnsweredInOrder(Tail(list), pending \o m.tool_calls, FALSE)
                 ELSE bad
            ELSE IF m.role = "tool"
            THEN IF pending # <<>> /\ pending[1].id = m.tool_call_id
                 THEN LET rest == AnsweredInOrder(Tail(list), Tail(pending), TRUE)
                      IN [ok |-> rest.ok, names |-> <<pending[1].name>> \o rest.names]
                 ELSE bad
            ELSE IF pending = <<>> THEN AnsweredInOrder(Tail(list), <<>>, FALSE)
            ELSE bad

RECURSIVE ResponseNamesOfParts(_)
ResponseNamesOfParts(parts) ==
    IF parts = <<>> THEN <<>>
    ELSE (IF parts[1].kind = "functionResponse" THEN <<parts[1].name>> ELSE <<>>)
         \o ResponseNamesOfParts(Tail(parts))

RECURSIVE ResponseNames(_)
ResponseNames(turns) ==
    IF turns = <<>> THEN <<>>
    ELSE ResponseNamesOfParts(turns[1].parts) \o ResponseNames(Tail(turns))

\* C3: when the tool messages answer every call in order, every
\* functionResponse part's name is non-empty and equal to the name of the
\* functionCall part it answers.
C3_ResponseNamesResolve ==
    LET walk == AnsweredInOrder(Processed, <<>>, FALSE)
        names == ResponseNames(Contents)
    IN walk.ok =>
        /\ names = walk.names
        /\ \A k \in 1..Len(names) : names[k] # ""

\* two rounds answered in order, with two different names resolved
C3_Witness ==
    LET walk == AnsweredInOrder(Processed, <<>>, FALSE)
    IN /\ pc = "done"
       /\ walk.ok
       /\ Len(walk.names) >= 2
       /\ \E j, k \in 1..Len(walk.names) : walk.names[j] # walk.names[k]
       /\ ResponseNames(requestBody.contents) = walk.names

----------------------------------------------------------------------------
(* System instruction *)

\* the length of the maximal leading run of system messages
LeadingRunLen(list) ==
    CHOOSE n \in 0..Len(list) :
        /\ \A k \in 1..n : list[k].role = "system"
        /\ n = Len(list) \/ list[n + 1].role # "system"

LeadingRun(list) == SubSeq(list, 1, LeadingRunLen(list))
AfterLeadingRun(list) == SubSeq(list, LeadingRunLen(list) + 1, Len(list))

\* the text of a message: the string, or the texts of the text items
MessageText(m) ==
    IF m.content.kind = "string" THEN m.content.text
    ELSE IF m.content.kind = "array"
    THEN LET texts == SelectSeq(m.content.items, LAMBDA it : it.type = "text")
         IN Join([k \in 1..Len(texts) |-> texts[k].text], <<>>)
    ELSE <<>>

\* base, then each text of the run after a blank line
RECURSIVE EachAfterBlankLine(_, _)
EachAfterBlankLine(base, run) ==
    IF run = <<>> THEN base
    ELSE EachAfterBlankLine(base \o BlankLine \o MessageText(run[1]), Tail(run))

\* the pieces trimmed, the empty ones left out, the rest joined by blank lines
TrimmedPieces(base, run) ==
    LET pieces == <<base>> \o [k \in 1..Len(run) |-> MessageText(run[k])]
        trimmed == [k \in 1..Len(pieces) |-> Trim(pieces[k])]
    IN Join(SelectSeq(trimmed, LAMBDA t : t # <<>>), BlankLine)

RunProducesNoTurn ==
    requestBody.contents = openaiMessageToAntigravity(AfterLeadingRun(openaiMessages))

\* C6 as stated: the leading run of system messages produces no upstream
\* turn, and the system-instruction text is the base instruction followed by
\* the texts of the run in order, each joined to the previous by a blank line.
C6_Original ==
    pc = "done" =>
        /\ RunProducesNoTurn
        /\ requestBody.systemInstructionText
            = EachAfterBlankLine(baseSystem, LeadingRun(openaiMessages))

\* C6 amended: the leading run of system messages produces no upstream turn,
\* and the system-instruction text is the trimmed base instruction followed by
\* the trimmed texts of the run in order, joined by blank lines, where a piece
\* that is empty after trimming is left out; the field is present exactly
\* when that text is not empty.
C6_SystemInstructionMerged ==
    pc = "done" =>
        /\ RunProducesNoTurn
        /\ requestBody.systemInstructionText
            = TrimmedPieces(baseSystem, LeadingRun(openaiMessages))
        /\ requestBody.hasSystemInstruction
            = (TrimmedPieces(baseSystem, LeadingRun(openaiMessages)) # <<>>)

\* a run of two system messages with text, merged after a base, and a body
C6_Witness ==
    /\ pc = "done"
    /\ LeadingRunLen(openaiMessages) >= 2
    /\ Len(openaiMessages) > LeadingRunLen(openaiMessages)
    /\ Trim(baseSystem) # <<>>
    /\ \A k \in 1..2 : Trim(MessageText(openaiMessages[k])) # <<>>
    /\ MessageText(openaiMessages[1]) # MessageText(openaiMessages[2])
    /\ requestBody.hasSystemInstruction
    /\ requestBody.contents # <<>>

\* C7 as stated: the system-instruction field depends only on the base
\* instruction and the leading run of system messages, and for a list with no
\* leading system message it equals the configured base instruction exactly.
C7_Original ==
    pc = "done" =>
        /\ requestBody.systemInstructionText
            = extractSystemInstruction(LeadingRun(openaiMessages), baseSystem)
        /\ (LeadingRunLen(openaiMessages) = 0
                => requestBody.systemInstructionText = baseSystem)

\* C7 amended: the system-instruction field depends only on the base
\* instruction and the leading run of system messages, and for a list with no
\* leading system message it equals the configured base instruction with its
\* leading and trailing whitespace removed (absent when that is empty).
C7_SystemInstructionFrame ==
    pc = "done" =>
        /\ requestBody.systemInstructionText
            = extractSystemInstruction(LeadingRun(openaiMessages), baseSystem)
        /\ (LeadingRunLen(openaiMessages) = 0
                => /\ requestBody.systemInstructionText = Trim(baseSystem)
                   /\ requestBody.hasSystemInstruction = (Trim(baseSystem) # <<>>))

\* a system message with text after the first non-system message left the
\* field equal to the trimmed base
C7_Witness ==
    /\ pc = "done"
    /\ LeadingRunLen(openaiMessages) = 0
    /\ \E k \in 2..Len(openaiMessages) :
          /\ openaiMessages[k].role = "system"
          /\ Trim(MessageText(openaiMessages[k])) # <<>>
    /\ baseSystem # Trim(baseSystem)
    /\ requestBody.systemInstructionText = Trim(baseSystem)

----------------------------------------------------------------------------
(* System messages in the body *)

AsUser(list) ==
    [k \in 1..Len(list) |->
        IF list[k].role = "system" THEN [list[k] EXCEPT !.role = "user"] ELSE list[k]]

\* C8: a system message after a non-system message is transcoded exactly as
\* a user message with the same content, and no system message is both
\* placed in the system-instruction field and emitted as a user turn.
C8_LateSystemIsUser ==
    pc = "done" =>
        /\ requestBody.contents
            = openaiMessageToAntigravity(AsUser(AfterLeadingRun(openaiMessages)))
        /\ \A k \in (startIndex + 1)..Len(openaiMessages) :
              openaiMessages[k].role = "system"
                  => \E j \in 1..(k - 1) : openaiMessages[j].role # "system"

\* a system message carrying an image, after a non-system message
C8_Witness ==
    /\ pc = "done"
    /\ \E k \in 2..Len(openaiMessages) :
          /\ openaiMessages[k].role = "system"
          /\ openaiMessages[k - 1].role # "system"
          /\ extractImagesFromContent(openaiMessages[k].content).images # <<>>
    /\ \E t \in 1..Len(requestBody.contents) :
          /\ requestBody.contents[t].role = "user"
          /\ Len(requestBody.contents[t].parts) = 2
          /\ requestBody.contents[t].parts[2].kind = "inlineData"

----------------------------------------------------------------------------
(* User and assistant messages *)

AtMessage(role) ==
    pc = "convert" /\ idx <= Len(openaiMessages) /\ openaiMessages[idx].role = role

\* the images of a content list: one per image_url item with a data URL
ImagesOf(m) ==
    IF m.content.kind # "array" THEN <<>>
    ELSE LET shots == SelectSeq(m.content.items,
                        LAMBDA it : it.type = "image_url" /\ MatchDataUrl(it.url).ok)
         IN [k \in 1..Len(shots) |->
                InlineData(<<"image/">> \o MatchDataUrl(shots[k].url).format,
                           MatchDataUrl(shots[k].url).data)]

ExpectedUserTurn(m) == Turn("user", <<TextPart(MessageText(m))>> \o ImagesOf(m))

\* C9: every user message appends exactly one new user turn whose first part
\* is a text part (also when the text is empty) followed by the extracted
\* images in order, never merged into the preceding turn; a list holding one
\* plain-string user message yields exactly one turn {role:user, parts:[{text}]}.
C9_UserMessageOwnTurn ==
    /\ [][AtMessage("user") =>
            antigravityMessages'
                = Append(antigravityMessages, ExpectedUserTurn(openaiMessages[idx]))]_vars
    /\ [](pc = "done" /\ Len(openaiMessages) = 1 /\ openaiMessages[1].role = "user"
          /\ openaiMessages[1].content.kind = "string"
            => requestBody.contents
                = <<Turn("user", <<TextPart(openaiMessages[1].content.text)>>)>>)

\* a user message with an image and no text, right after a user turn
C9_Witness ==
    /\ pc = "convert"
    /\ idx >= 3
    /\ openaiMessages[idx - 1].role = "user"
    /\ openaiMessages[idx - 2].role = "user"
    /\ Len(Contents) >= 2
    /\ Last(Contents).role = "user"
    /\ Len(Last(Contents).parts) = 2
    /\ Last(Contents).parts[1] = TextPart(<<>>)
    /\ Last(Contents).parts[2].kind = "inlineData"
    /\ Contents[Len(Contents) - 1].role = "user"

CallParts(m) ==
    [k \in 1..Len(m.tool_calls) |->
        FunctionCall(m.tool_calls[k].id, m.tool_calls[k].name, m.tool_calls[k].arguments)]

\* the text of an assistant message, <<>> when it has none
TextOfAssistant(m) == IF m.content.kind = "string" THEN m.content.text ELSE <<>>

\* the step an assistant message takes when `noText` decides what counts as
\* a message without text
AssistantStep(m, noText) ==
    LET merge == /\ antigravityMessages # <<>>
                 /\ Last(antigravityMessages).role = "model"
                 /\ Len(m.tool_calls) >= 1
                 /\ noText
        trimmed == TrimEnd(TextOfAssistant(m))
    IN IF merge
       THEN /\ Len(antigravityMessages') = Len(antigravityMessages)
            /\ \A k \in 1..(Len(antigravityMessages) - 1) :
                  antigravityMessages'[k] = antigravityMessages[k]
            /\ Last(antigravityMessages').role = "model"
            /\ Last(antigravityMessages').parts
                = Last(antigravityMessages).parts \o CallParts(m)
       ELSE antigravityMessages'
                = Append(antigravityMessages,
                         Turn("model",
                              (IF trimmed # <<>> THEN <<TextPart(trimmed)>> ELSE <<>>)
                              \o CallParts(m)))

----------------------------------------------------------------------------
\* C4: whenever the resolved thinking-enabled flag is false, the generation
\* config has thinkingBudget = 0 and includeThoughts = false, for every
\* client thinking_budget and reasoning_effort and every configured default.
C4_NoThinkingNoBudget ==
    genPc = "done" /\ ~enableThinking =>
        /\ generationConfig.thinkingConfig.thinkingBudget = Num(0)
        /\ generationConfig.thinkingConfig.includeThoughts = FALSE

\* thinking off, a client budget, a client effort and a configured default,
\* all three non-zero
C4_Witness ==
    /\ genPc = "done"
    /\ ~enableThinking
    /\ parameters.thinking_budget = Num(5000)
    /\ parameters.reasoning_effort = Effort("high")
    /\ configDefaults.thinking_budget = Num(8000)
    /\ generationConfig.thinkingConfig.thinkingBudget = Num(0)

\* C5: cleanParameters is idempotent: cleaning a cleaned schema changes
\* nothing.
C5_CleanIdempotent ==
    cleanPc = "twice" => cleanedTwice = cleaned

RECURSIVE MentionsExcluded(_)
MentionsExcluded(node) ==
    \E i \in 1..Len(node.kv) :
        node.kv[i].k \in EXCLUDED_KEYS \/ MentionsExcluded(node.kv[i].val)

\* a schema with excluded keys below the top level, cleaned twice
C5_Witness ==
    /\ cleanPc = "twice"
    /\ \E i \in 1..Len(schema.kv) : MentionsExcluded(schema.kv[i].val)
    /\ ~MentionsExcluded(cleaned)
    /\ cleaned # schema
    /\ cleanedTwice = cleaned

----------------------------------------------------------------------------
(* C11 to C13: where a tool message's functionResponse part goes and which  *)
(* name it carries.                                                        *)

\* the response part a tool message must yield, whatever its name
IsResponseTo(part, m) ==
    /\ part.kind = "functionResponse"
    /\ part.id = m.tool_call_id
    /\ part.output = m.content

\* the preceding turn is a user turn that already holds a functionResponse part
PrecedingHoldsResponse(turns) ==
    /\ turns # <<>>
    /\ turns[Len(turns)].role = "user"
    /\ \E k \in 1..Len(turns[Len(turns)].parts) :
           turns[Len(turns)].parts[k].kind = "functionResponse"

\* after is before with one part added at the end of its last turn
JoinedLastTurn(before, after, m) ==
    /\ before # <<>>
    /\ Len(after) = Len(before)
    /\ SubSeq(after, 1, Len(before) - 1) = SubSeq(before, 1, Len(before) - 1)
    /\ after[Len(after)].role = "user"
    /\ Len(after[Len(after)].parts) = Len(before[Len(before)].parts) + 1
    /\ SubSeq(after[Len(after)].parts, 1, Len(before[Len(before)].parts))
           = before[Len(before)].parts
    /\ IsResponseTo(after[Len(after)].parts[Len(after[Len(after)].parts)], m)

\* after is before with one new user turn holding one part
StartedUserTurn(before, after, m) ==
    /\ Len(after) = Len(before) + 1
    /\ SubSeq(after, 1, Len(before)) = before
    /\ after[Len(after)].role = "user"
    /\ Len(after[Len(after)].parts) = 1
    /\ IsResponseTo(after[Len(after)].parts[1], m)

\* C11: a tool message's functionResponse part is appended into the
\* immediately preceding turn exactly when that turn is a user turn already
\* holding a functionResponse part; otherwise (model turn, plain user turn,
\* no turn) it starts a new user turn holding only that part.
C11_ToolResponsePlacement ==
    [][AtMessage("tool") =>
        IF PrecedingHoldsResponse(antigravityMessages)
        THEN JoinedLastTurn(antigravityMessages, antigravityMessages',
                            openaiMessages[idx])
        ELSE StartedUserTurn(antigravityMessages, antigravityMessages',
                             openaiMessages[idx])]_vars

\* both branches taken: a new turn started after a plain user turn, then a
\* second response joined into it
C11_Witness ==
    /\ pc = "convert"
    /\ Len(Processed) = 3
    /\ Processed[1].role = "user"
    /\ Processed[2].role = "tool"
    /\ Processed[3].role = "tool"
    /\ Len(Contents) = 2
    /\ Contents[1].role = "user"
    /\ Len(Contents[2].parts) = 2

\* no model turn produced so far holds a functionCall part with this id
Unmatched(id, turns) ==
    \A i \in 1..Len(turns) :
        turns[i].role = "model" =>
            \A k \in 1..Len(turns[i].parts) :
                ~(turns[i].parts[k].kind = "functionCall" /\ turns[i].parts[k].id = id)

LastPart(turns) == turns[Len(turns)].parts[Len(turns[Len(turns)].parts)]

\* position k of the processed messages is a tool message that matched nothing
UnmatchedAt(k) ==
    /\ Processed[k].role = "tool"
    /\ Unmatched(Processed[k].tool_call_id,
                 openaiMessageToAntigravity(SubSeq(Processed, 1, k - 1)))

\* C12: a tool message whose tool_call_id matches no functionCall part in any
\* model turn produced so far does not abort transcoding: the step yields one
\* functionResponse part with that id and the empty name and moves on to the
\* next message; the loop can always take its next step, and the messages
\* after the unmatched one are transcoded as they are after any other turn list.
C12_UnmatchedToolDegrades ==
    /\ [][(AtMessage("tool")
            /\ Unmatched(openaiMessages[idx].tool_call_id, antigravityMessages))
          => /\ \/ JoinedLastTurn(antigravityMessages, antigravityMessages',
                                  openaiMessages[idx])
                \/ StartedUserTurn(antigravityMessages, antigravityMessages',
                                   openaiMessages[idx])
             /\ LastPart(antigravityMessages').name = ""
             /\ pc' = "convert"
             /\ idx' = idx + 1]_vars
    /\ [](pc = "convert" => ENABLED Next)
    /\ [](pc \in {"convert", "done"} =>
            \A k \in 1..Len(Processed) :
                UnmatchedAt(k) =>
                    Contents = ConvertFrom(SubSeq(Processed, k + 1, Len(Processed)),
                                   openaiMessageToAntigravity(SubSeq(Processed, 1, k))))

\* an unmatched tool message, a later message transcoded after it, and the
\* envelope built
C12_Witness ==
    /\ pc = "done"
    /\ requestBody.built
    /\ Len(Processed) = 2
    /\ UnmatchedAt(1)
    /\ Processed[2].role = "assistant"
    /\ Len(requestBody.contents) = 2
    /\ requestBody.contents[1].parts[1].kind = "functionResponse"
    /\ requestBody.contents[1].parts[1].name = ""
    /\ requestBody.contents[2].role = "model"

\* the model turns of a turn list that hold a functionCall part with this id
MatchingTurns(id, turns) ==
    {i \in 1..Len(turns) :
        /\ turns[i].role = "model"
        /\ \E k \in 1..Len(turns[i].parts) :
               turns[i].parts[k].kind = "functionCall" /\ turns[i].parts[k].id = id}

ClosestMatchingTurn(id, turns) ==
    CHOOSE i \in MatchingTurns(id, turns) : \A j \in MatchingTurns(id, turns) : j <= i

\* the first part of a turn that is a functionCall with this id
FirstMatchingPart(id, turn) ==
    LET ks == {k \in 1..Len(turn.parts) :
                  turn.parts[k].kind = "functionCall" /\ turn.parts[k].id = id}
    IN turn.parts[CHOOSE k \in ks : \A j \in ks : k <= j]

\* C13: the backward scan stops at the first match: the functionResponse
\* carries the name of the matching-id functionCall part of the closest
\* preceding model turn that holds one, whatever earlier model turns hold,
\* also when the id is reused across turns or that name is empty.
C13_ScanStopsAtFirstMatch ==
    [][(AtMessage("tool")
         /\ MatchingTurns(openaiMessages[idx].tool_call_id, antigravityMessages) # {})
       => LastPart(antigravityMessages').name =
            FirstMatchingPart(openaiMessages[idx].tool_call_id,
                antigravityMessages[ClosestMatchingTurn(openaiMessages[idx].tool_call_id,
                                                        antigravityMessages)]).name]_vars

----------------------------------------------------------------------------
(* C14: the optional fields of the envelope *)

NoToolsSupplied == openaiTools.kind = "undefined" \/ openaiTools.list = <<>>

\* C14: in the envelope returned by generateRequestBody, request.tools is
\* absent whenever no tool declarations are supplied (missing or empty list)
\* and request.systemInstruction is absent whenever the merged system
\* instruction is empty; neither is ever sent as an empty structure.
C14_EmptyFieldsOmitted ==
    requestBody.built =>
        /\ NoToolsSupplied => ~requestBody.hasTools
        /\ mergedSystemInstruction = <<>> => ~requestBody.hasSystemInstruction
        /\ requestBody.hasTools => requestBody.tools # <<>>
        /\ requestBody.hasSystemInstruction => requestBody.systemInstructionText # <<>>

----------------------------------------------------------------------------
(* C15 and C16: topP and the thinking budget of the generation config *)

\* the upstream identifier names a model of the claude family
ClaudeFamily(name) ==
    name # <<>> /\ name[1] \in {"claude-sonnet-4-5", "claude-opus-4-5"}

Absent(x) == x.kind \in {"undefined", "null"}

\* C15: the generation config lacks topP exactly when thinking is enabled and
\* the upstream model id is of the claude family; otherwise topP is present
\* and is the client's top_p or, without one, the configured default.  For
\* the client model claude-sonnet-4-5-thinking the upstream id is
\* claude-sonnet-4-5, thinking is enabled and topP is absent.
C15_TopPDroppedForThinkingClaude ==
    genPc = "done" =>
        /\ ~generationConfig.hasTopP <=> (enableThinking /\ ClaudeFamily(actualModelName))
        /\ generationConfig.hasTopP =>
              generationConfig.topP =
                  (IF Absent(parameters.top_p) THEN configDefaults.top_p
                   ELSE parameters.top_p)
        /\ modelName = <<"claude-sonnet-4-5", "-thinking">> =>
              /\ actualModelName = <<"claude-sonnet-4-5">>
              /\ enableThinking
              /\ ~generationConfig.hasTopP

\* the example of the claim, with a client top_p that is then dropped
C15_Witness ==
    /\ genPc = "done"
    /\ modelName = <<"claude-sonnet-4-5", "-thinking">>
    /\ parameters.top_p = Num(7)
    /\ ~generationConfig.hasTopP

ConfiguredOrHardDefault ==
    IF Absent(configDefaults.thinking_budget) THEN Num(HardDefaultThinkingBudget)
    ELSE configDefaults.thinking_budget

EffortBudget(e) ==
    IF e = "low" THEN Num(1024)
    ELSE IF e = "medium" THEN Num(16000)
    ELSE IF e = "high" THEN Num(32000)
    ELSE ConfiguredOrHardDefault

\* C16: with thinking enabled the budget is resolved in strict priority
\* order: an explicit client thinking_budget wins; otherwise a client
\* reasoning_effort of low/medium/high gives 1024/16000/32000 and any other
\* effort value gives the default; otherwise the configured default, and
\* 16000 when none is configured.
C16_BudgetPriority ==
    (genPc = "done" /\ enableThinking) =>
        generationConfig.thinkingConfig.thinkingBudget =
            (IF parameters.thinking_budget.kind # "undefined"
             THEN parameters.thinking_budget
             ELSE IF parameters.reasoning_effort.kind # "undefined"
             THEN EffortBudget(parameters.reasoning_effort.value)
             ELSE ConfiguredOrHardDefault)

----------------------------------------------------------------------------
(* C17: what cleanParameters removes and what it keeps *)

\* every node of a JSON value with its position: the keys and indices that
\* lead to it, its type and, for a leaf, its value
RECURSIVE NodesOf(_, _)
NodesOf(node, path) ==
    {<<path, node.t, node.v>>}
    \cup UNION {NodesOf(node.kv[i].val, Append(path, node.kv[i].k)) : i \in 1..Len(node.kv)}

UnderExcludedKey(path) == \E k \in 1..Len(path) : path[k] \in EXCLUDED_KEYS

\* C17: for every schema value the output of cleanParameters holds none of
\* the excluded keys at any nesting level, inside objects and inside arrays,
\* and every other key, array element and leaf of the input is in the
\* output at the same position with the same value.
C17_OnlyExcludedKeysRemoved ==
    cleanPc \in {"once", "twice"} =>
        /\ \A n \in NodesOf(cleaned, <<>>) : ~UnderExcludedKey(n[1])
        /\ NodesOf(cleaned, <<>>) =
              {n \in NodesOf(schema, <<>>) : ~UnderExcludedKey(n[1])}

----------------------------------------------------------------------------
(* C18: what extractImagesFromContent returns *)

IsTextItem(it) == ~it.isNull /\ it.type = "text" /\ it.hasText

IsDataImage(it) ==
    ~it.isNull /\ it.type = "image_url" /\ it.urlKind = "string" /\ MatchDataUrl(it.url).ok

RECURSIVE TextsInOrder(_)
TextsInOrder(items) ==
    IF items = <<>> THEN <<>>
    ELSE (IF IsTextItem(items[1]) THEN items[1].text ELSE <<>>) \o TextsInOrder(Tail(items))

RECURSIVE ImagesInOrder(_)
ImagesInOrder(items) ==
    IF items = <<>> THEN <<>>
    ELSE (IF IsDataImage(items[1])
          THEN <<InlineData(<<"image/">> \o MatchDataUrl(items[1].url).format,
                            MatchDataUrl(items[1].url).data)>>
          ELSE <<>>)
         \o ImagesInOrder(Tail(items))

\* C18: for a content list the result is the texts of the text items
\* joined in list order and one image per image_url item with a data URL,
\* in list order; every other item (other URL, unknown type, malformed) is
\* skipped and no error is raised; a plain string comes back unchanged with
\* no image.
C18_ExtractSkipsOtherItems ==
    extractPc = "done" =>
        /\ ~extractOutput.threw
        /\ extractInput.kind = "string" =>
              extractOutput.text = extractInput.text /\ extractOutput.images = <<>>
        /\ extractInput.kind = "array" =>
              /\ extractOutput.text = TextsInOrder(extractInput.items)
              /\ extractOutput.images = ImagesInOrder(extractInput.items)

----------------------------------------------------------------------------
(* C19: the order of the lookups and what customLookup reports *)

Failed(lookup) == lookup.state = "returned" /\ ~(lookup.err = "" /\ lookup.address # "")

ExpectedReport ==
    IF lookup4.err = "" /\ lookup4.address # "" THEN Callback("", lookup4.address, 4)
    ELSE IF lookup6.err = "" /\ lookup6.address # "" THEN Callback("", lookup6.address, 6)
    ELSE Callback(lookup4.err, "", 0)

\* C19: customLookup tries the IPv4 lookup first and starts the IPv6 lookup
\* only after the IPv4 lookup has failed; it reports the IPv4 address if
\* IPv4 succeeds, else the IPv6 address if IPv6 succeeds, else the error of
\* the IPv4 lookup; the caller's callback is invoked exactly once in every
\* case.
C19_Ipv4FirstOneCallback ==
    /\ [](lookupOrder \in {<<>>, <<4>>, <<4, 6>>})
    /\ [](lookup6.state # "none" => Failed(lookup4))
    /\ [](Len(callbacks) <= 1)
    /\ [](Len(callbacks) = 1 <=> dnsPc = "done")
    /\ [](dnsPc = "done" => callbacks = <<ExpectedReport>>)
    /\ <>(dnsPc = "done")

\* both lookups failed, with different errors, and the IPv4 one was reported
C19_Witness ==
    /\ dnsPc = "done"
    /\ lookup4.err # ""
    /\ lookup6.err # ""
    /\ lookup4.err # lookup6.err
    /\ lookupOrder = <<4, 6>>
    /\ callbacks = <<Callback(lookup4.err, "", 0)>>

----------------------------------------------------------------------------
(* C20: a category whose caching is switched off *)

\* the category's own flag, as configured, switches its caching off
DisabledByFlag(category) ==
    IF category = "tool" THEN jsonOther.cacheToolSignatures = "false"
    ELSE IF category = "image" THEN jsonOther.cacheImageSignatures = "false"
    ELSE jsonOther.cacheThinking = "false"

\* C20: when caching of a category (tool, image, thinking) is disabled by its
\* policy flag, a put for that category leaves the cache unchanged and a get
\* for that category reports absent, after any sequence of put and get calls
\* and whatever the flags of the other categories are.
C20_DisabledCategoryNotCached ==
    /\ [][(lastCall'.op = "put" /\ DisabledByFlag(lastCall'.category))
            => sigCache' = sigCache]_vars
    /\ [](lastCall.op = "get" /\ DisabledByFlag(lastCall.category) => lastCall.token = "")
    /\ [](\A e \in sigCache : ~DisabledByFlag(e.category))

\* tool caching off, image caching on and holding an entry, then a put and a
\* get for the tool category
C20_Witness ==
    /\ jsonOther.cacheToolSignatures = "false"
    /\ jsonOther.cacheImageSignatures = "true"
    /\ \E e \in sigCache : e.category = "image"
    /\ lastCall.op = "get"
    /\ lastCall.category = "tool"
    /\ lastCall.token = ""

----------------------------------------------------------------------------
(* C28: no turn without parts *)

\* C28: every upstream turn of the contents list produced by
\* openaiMessageToAntigravity has at least one part, for every client
\* message list, assistant messages with neither text nor tool calls
\* included.
C28_EveryTurnHasAPart ==
    \A i \in 1..Len(antigravityMessages) : Len(antigravityMessages[i].parts) >= 1

----------------------------------------------------------------------------
(* C29: the upstream model and the thinking switch *)

EndsInThinking(name) == name # <<>> /\ name[Len(name)] = "-thinking"

\* C29: for every client model identifier, whenever the upstream model
\* identifier of the envelope ends in -thinking, the generation config's
\* thinkingConfig.includeThoughts is true.
C29_ThinkingModelIncludesThoughts ==
    (genPc = "done" /\ EndsInThinking(actualModelName)) =>
        generationConfig.thinkingConfig.includeThoughts

----------------------------------------------------------------------------
(* C26: multi-line values of parseEnvFile *)

\* the value opens with a quote that is not closed on the same line
OpensUnclosed(trimmedValue) ==
    /\ trimmedValue # <<>>
    /\ trimmedValue[1] \in Quotes
    /\ ~(Len(trimmedValue) >= 2 /\ trimmedValue[Len(trimmedValue)] = trimmedValue[1])

\* The parse the claim describes, from line i on.  st holds the assignments
\* made (data) and, inside a multi-line value, its key, its quote and the
\* text collected.
RECURSIVE ClaimedParse(_, _, _)
ClaimedParse(lines, i, st) ==
    IF i > Len(lines)
    THEN IF st.multi THEN Assign(st.data, st.key, st.value) ELSE st.data
    ELSE IF st.multi
    THEN LET collected == st.value \o <<"\n">> \o lines[i]
         IN IF EndsWith(lines[i], st.quote)
            THEN ClaimedParse(lines, i + 1,
                    [st EXCEPT !.multi = FALSE,
                               !.data = Assign(st.data, st.key,
                                               SubSeq(collected, 1, Len(collected) - 1))])
            ELSE ClaimedParse(lines, i + 1, [st EXCEPT !.value = collected])
    ELSE LET line == Trim(lines[i])
             eqIndex == EqIndex(line)
             key == Trim(SubSeq(line, 1, eqIndex - 1))
             value == TrimStart(SubSeq(line, eqIndex + 1, Len(line)))
         IN IF line = <<>> \/ StartsWith(line, "#") \/ eqIndex = 0
            THEN ClaimedParse(lines, i + 1, st)
            ELSE IF OpensUnclosed(value)
            THEN ClaimedParse(lines, i + 1,
                    [st EXCEPT !.multi = TRUE, !.key = key, !.quote = value[1],
                               !.value = Tail(value)])
            ELSE ClaimedParse(lines, i + 1,
                    [st EXCEPT !.data = Assign(st.data, key, Unquote(Trim(value)))])

\* C26: a value that opens with a quote not closed on the same line is a
\* multi-line value: every following line is collected verbatim, blank and
\* '#' lines too, joined by newlines, up to the first line that ends with the
\* same quote, and then the key is assigned; at the end of the file without
\* such a line the key gets the text collected so far; outside a multi-line
\* value, blank lines, '#' lines and lines without '=' assign nothing.
C26_MultilineValues ==
    envPc = "done" =>
        envData = ClaimedParse(envLines, 1,
                      [multi |-> FALSE, key |-> <<>>, quote |-> "", value |-> <<>>,
                       data |-> {}])


----------------------------------------------------------------------------
(* IpBlockManager: blocks *)

\* recordViolation has run on the stored record of ip in this step
Recorded(ip) ==
    /\ loadCount' = loadCount
    /\ blockedIps[ip].exists
    /\ blockedIps'[ip] # blockedIps[ip]

\* the violation counted in this step is the 20th of the count of ip
TwentiethCounted(ip) ==
    /\ Recorded(ip)
    /\ blockedIps[ip].violations = MAX_VIOLATIONS_BEFORE_TEMP_BLOCK - 1
    /\ ipNow - blockedIps[ip].lastViolation <= VIOLATION_WINDOW

\* C21: the 20th counted violation of an address that is not whitelisted
\* resets its count to 0 and blocks it: permanently when its count of
\* temporary blocks reaches 3 with this block, else temporarily, and then
\* check reports it blocked up to, and not at, one hour after the violation.
C21_TwentiethViolationBlocks ==
    [][\A ip \in Keys :
          (~isWhitelisted(ip) /\ TwentiethCounted(ip)) =>
              LET before == blockedIps[ip]
                  info == blockedIps'[ip]
                  expiry == ipNow + TEMP_BLOCK_DURATION
              IN  /\ info.violations = 0
                  /\ info.tempBlockCount = before.tempBlockCount + 1
                  /\ IF info.tempBlockCount >= MAX_TEMP_BLOCKS_BEFORE_PERMANENT
                     THEN /\ info.permanent
                          /\ check(ip, blockedIps', expiry).reason = "permanent"
                     ELSE /\ ~info.permanent
                          /\ info.expiresAt = expiry
                          /\ check(ip, blockedIps', ipNow).reason = "temporary"
                          /\ check(ip, blockedIps', expiry - 1).reason = "temporary"
                          /\ ~check(ip, blockedIps', expiry).blocked]_vars

\* the address was blocked for an hour, and then permanently
C21_Witness ==
    /\ savesCalled = 2
    /\ blockedIps[Outside].permanent
    /\ blockedIps[Outside].tempBlockCount = MAX_TEMP_BLOCKS_BEFORE_PERMANENT


\* C22: the violations counted for an address, and the 20 that trigger a
\* block, all fall within one span of VIOLATION_WINDOW: the first of them is
\* no more than 60 seconds older than the last.
C22_CountWithinOneWindow ==
    \A ip \in Keys :
        blockedIps[ip].exists =>
            blockedIps[ip].lastViolation - blockedIps[ip].since <= VIOLATION_WINDOW


\* a recordViolation call made while the list was loaded has returned by
\* line 107 in this step
ReturnedBlocked ==
    /\ loadCount' = loadCount
    /\ lastIpCall' # lastIpCall
    /\ lastIpCall'.op = "recordViolation"
    /\ lastIpCall'.exit = "line 107"

\* C23: recordViolation for an address that check reports blocked, by a
\* permanent block or by a temporary one that has not expired, leaves the
\* record of the address as it is and calls no save.
C23_BlockedAddressUntouched ==
    [][/\ \A ip \in Keys :
             check(ip, blockedIps, ipNow).blocked =>
                 /\ CountViolation(blockedIps[ip], ipNow).info = blockedIps[ip]
                 /\ ~CountViolation(blockedIps[ip], ipNow).save
       /\ ReturnedBlocked =>
             UNCHANGED <<blockedIps, savesCalled, saveQueue, writing, writeLog>>]_vars

\* a call for the address under its temporary block has returned
C23_Witness ==
    /\ lastIpCall.op = "recordViolation"
    /\ lastIpCall.exit = "line 107"
    /\ check(Outside, blockedIps, ipNow).reason = "temporary"
    /\ savesCalled = 1


\* the local addresses: the four listed ones and those starting with "127."
Local(ip) ==
    \/ ip \in {Loopback, Ipv6Loopback, MappedLoopback, Localhost}
    \/ HasPrefix(ip, <<"1", "2", "7", ".">>)

\* C24: check never reports a local address blocked, whatever the list
\* holds for it, and no call of recordViolation creates or changes the
\* record of a local address (only a load of the file sets it).
C24_LocalAddressesExempt ==
    [][\A ip \in Keys :
          Local(ip) =>
              /\ ~check(ip, blockedIps, ipNow).blocked
              /\ ~check(ip, blockedIps', ipNow').blocked
              /\ loadCount' = loadCount => blockedIps'[ip] = blockedIps[ip]]_vars

\* the loaded list holds blocks of local addresses, and check has returned
\* for one
C24_Witness ==
    /\ blockedIps[Loopback].permanent
    /\ IsBlocked(blockedIps[LoopbackNet], ipNow)
    /\ lastIpCall.op = "check"
    /\ lastIpCall.exit = "line 70"
    /\ ~lastIpCall.blocked


----------------------------------------------------------------------------
(* IpBlockManager: the save chain and init *)

\* C25: at most one write of the block-list file is in flight; the writes
\* start in the order of the save calls, none left out; and when no write is
\* in flight every save called so far has had its write started, a failed
\* write before it or not.
C25_SavesSerialised ==
    /\ Cardinality(writing) <= 1
    /\ \A i \in 1..Len(writeLog) : writeLog[i] = i
    /\ \A i \in 1..Len(saveQueue) : saveQueue[i] = Len(writeLog) + i
    /\ Len(writeLog) + Len(saveQueue) = savesCalled
    /\ writing = {} => saveQueue = <<>>

\* the first write has failed, the file is as it was, and the write of the
\* second save is in flight
C25_Witness ==
    /\ savesCalled = 2
    /\ writeLog = <<1, 2>>
    /\ writing # {}
    /\ fileData = NoFile


\* the list after this step is the list before it with one more violation
\* recorded: nothing that was in memory is lost
KeepsRecorded ==
    \E ip \in Keys :
        blockedIps' = [blockedIps EXCEPT ![ip] = CountViolation(@, ipNow).info]

\* C27: whatever the interleaving of the first recordViolation calls, the
\* file is loaded into memory at most once, and the load discards nothing
\* that a call has already recorded in memory.
C27_LoadedOnceNothingLost ==
    [][loadCount' > loadCount =>
          /\ loadCount = 0
          /\ blockedIps = EmptyList \/ KeepsRecorded]_vars

====
